---- MODULE Spec2Model ----
(***************************************************************************)
(* Prompt-Reverse: a model of the React application state (App.tsx), the   *)
(* prompt output panel with its creative-media handlers                    *)
(* (components/PromptOutput.tsx), the Gemini service calls                 *)
(* (services/geminiService.ts) and the repository importer of the code     *)
(* input panel (the multi-provider CodeInput, unnamed/part_002).           *)
(*                                                                         *)
(* Text is modelled as a sequence of tokens (strings): template literals   *)
(* are tokens, interpolated fields are tokens.  A React state update and   *)
(* the effects it schedules are one step; every await is a step boundary.  *)
(* A handler that runs after an await uses the values its closure captured *)
(* when it was invoked, as the JavaScript does.                            *)
(***************************************************************************)
EXTENDS Integers, Sequences, FiniteSets, TLC

VARIABLES
  \* ---- App.tsx state (useState) ----
  uploadedFiles,      \* UploadedFile[]
  additionalTask,     \* string
  useSearchGrounding, \* boolean
  history,            \* GenerationContext[], most recent first
  currentContext,     \* GenerationContext | null (NoContext)
  promptStyle,        \* PromptStyle
  refinedPrompt,      \* string | null
  isLoading,
  isRefining,
  error,              \* string | null
  \* ---- PromptOutput.tsx state of the mounted instance ----
  loadingMedia,       \* {logo, audio, video: boolean}
  \* ---- requests in flight (suspended async handlers) ----
  pendingAnalysis,    \* the suspended handleGeneratePrompt
  pendingRefine,      \* the suspended handleRefinePrompt
  pendingMedia,       \* the suspended handleGenerateLogo/Audio/Video calls
  nextId,             \* source of fresh ids (crypto.randomUUID) and timestamps
  mediaWrites,        \* observer: how often each (context id, kind) was written
  videoDone,          \* observer: ids of contexts whose video job was seen done
  selectTick,         \* observer: flips at every handleSelectHistory call
  alertTick,          \* observer: flips at every alert(...) shown to the user
  \* ---- CodeInput state and the suspended handleFetchFromRepo ----
  repoUrl,
  repoFetchState,
  repo,               \* the suspended import: provider, position, collected files
  \* ---- CodeInput raw-URL import and the suspended handleFetchFromUrl ----
  url,                \* the textarea, its lines separated by "\n" tokens
  urlFetchState,      \* {loading, error}; the error null is <<>>
  urlFetch            \* the URLs being fetched and the state of each promise

appVars == <<uploadedFiles, additionalTask, useSearchGrounding, history,
             currentContext, promptStyle, refinedPrompt, isLoading, isRefining,
             error, loadingMedia, pendingAnalysis, pendingRefine, pendingMedia,
             nextId, mediaWrites, videoDone, selectTick,
             alertTick>>
repoVars == <<repoUrl, repoFetchState, repo>>
urlVars == <<url, urlFetchState, urlFetch>>
vars == <<appVars, repoVars, urlVars>>

(***************************************************************************)
(* Bounds of the model.                                                    *)
(***************************************************************************)
MaxContexts == 2      \* analyses that may succeed in one behaviour
MaxPendingMedia == 2  \* media requests in flight at once
MaxPolls == 1         \* status polls of one video job that report "not done"

(***************************************************************************)
(* Generic helpers on token sequences.                                     *)
(***************************************************************************)
RECURSIVE Flatten(_)
Flatten(ss) == IF ss = <<>> THEN <<>> ELSE Head(ss) \o Flatten(Tail(ss))

\* Array.prototype.join on token sequences
RECURSIVE Join(_, _)
Join(parts, sep) ==
  IF parts = <<>> THEN <<>>
  ELSE IF Len(parts) = 1 THEN Head(parts)
  ELSE Head(parts) \o sep \o Join(Tail(parts), sep)

Map1(prefix, items) == [i \in 1..Len(items) |-> <<prefix, items[i]>>]

Contains(seq, tok) == \E i \in 1..Len(seq) : seq[i] = tok

\* String.prototype.toLowerCase on the tokens the model uses
Lower(tok) ==
  CASE tok = "TypeScript" -> "typescript"
    [] tok = "Python"     -> "python"
    [] tok = "EXE"        -> "exe"
    [] tok = "DS_Store"   -> "ds_store"
    [] tok = "Yarn"       -> "yarn"
    [] tok = "GitHub.com" -> "github.com"
    [] tok = "PNG"        -> "png"
    [] tok = "README"     -> "readme"
    [] OTHER              -> tok

WhiteSpace == {"", " ", "\n", "\n\n"}

\* String.prototype.trim, at token granularity
RECURSIVE TrimLeft(_)
TrimLeft(s) == IF s # <<>> /\ Head(s) \in WhiteSpace THEN TrimLeft(Tail(s)) ELSE s
RECURSIVE TrimRight(_)
TrimRight(s) ==
  IF s # <<>> /\ s[Len(s)] \in WhiteSpace THEN TrimRight(SubSeq(s, 1, Len(s) - 1)) ELSE s
Trim(s) == TrimRight(TrimLeft(s))

(***************************************************************************)
(* Data model (types.ts).  A missing optional field is NoUrl / an          *)
(* undefined groundingLinks record; the current context null is NoContext. *)
(***************************************************************************)
NoUrl == "undefined"

NoLinks == [defined |-> FALSE, links |-> <<>>]

NoAnalysis ==
  [role |-> "", languageFramework |-> <<>>, mainObjective |-> "",
   technicalPurpose |-> "", keyFeatures |-> <<>>, structureClasses |-> <<>>,
   structureFunctions |-> <<>>, dependencies |-> <<>>, groundingLinks |-> NoLinks]

NoContext ==
  [id |-> 0, analysis |-> NoAnalysis, code |-> <<>>, task |-> "", timestamp |-> 0,
   generatedLogoUrl |-> NoUrl, generatedAudioUrl |-> NoUrl, generatedVideoUrl |-> NoUrl]

NullPrompt == [null |-> TRUE, text |-> <<>>]

PromptStyle ==
  {"technical", "compact", "concise", "popular", "friendly", "lovable",
   "descriptive", "base44"}

MediaKinds == {"logo", "audio", "video"}

\* The field of a context that a media kind is stored in
MediaUrl(ctx, kind) ==
  CASE kind = "logo"  -> ctx.generatedLogoUrl
    [] kind = "audio" -> ctx.generatedAudioUrl
    [] kind = "video" -> ctx.generatedVideoUrl

(***************************************************************************)
(* Inputs the environment may supply.                                      *)
(***************************************************************************)
\* What the analysis model may answer (parsed JSON)
AnalysisResults ==
  { [role |-> "Dev", languageFramework |-> <<"TypeScript", "React">>,
     mainObjective |-> "counter", technicalPurpose |-> "hooks",
     keyFeatures |-> <<"inc", "dec">>, structureClasses |-> <<"App">>,
     structureFunctions |-> <<>>, dependencies |-> <<"react">>,
     groundingLinks |-> NoLinks],
    [role |-> "Dev", languageFramework |-> <<>>,
     mainObjective |-> "script", technicalPurpose |-> "print",
     keyFeatures |-> <<"out">>, structureClasses |-> <<>>,
     structureFunctions |-> <<>>, dependencies |-> <<>>,
     groundingLinks |-> NoLinks] }

\* What researchContext may return (an empty list also on failure)
GroundingResults == { <<>>, <<[title |-> "React", url |-> "https://react.dev"]>> }

\* File lists the paste area and the upload dialog may produce
PastedFile == [path |-> <<"pasted_code", ".", "txt">>, content |-> <<"print(1)">>]
FileLists == { <<PastedFile>>,
               <<[path |-> <<"a", ".", "py">>, content |-> <<"x=1">>],
                 [path |-> <<"b", ".", "py">>, content |-> <<>>]>> }

Tasks == {"", "document it"}

\* Texts the refinement model may answer, already trimmed
RefinedTexts == { <<>>, <<"refined prompt">> }

(***************************************************************************)
(* App.tsx: the blob and the eight formatters.                             *)
(***************************************************************************)
\* uploadedFiles.map(file => "// FILE: ${file.path}\n\n${file.content}").join('\n\n---\n\n')
combinedCodeOf(files) ==
  Join([i \in 1..Len(files) |->
          <<"// FILE: ">> \o files[i].path \o <<"\n\n">> \o files[i].content],
       <<"\n\n---\n\n">>)

\* the text of languageFramework, kept as its words
LfText(analysis) ==
  Join([i \in 1..Len(analysis.languageFramework) |-> <<analysis.languageFramework[i]>>],
       <<" ">>)

\* languageFramework.split(' ')[0]?.toLowerCase() || 'text'
LanguageOf(analysis) ==
  LET first == IF analysis.languageFramework = <<>> THEN ""
               ELSE analysis.languageFramework[1]
  IN  IF Lower(first) = "" THEN "text" ELSE Lower(first)

\* items.map(x => "${prefix}${x}").join('\n')
Bullets(prefix, items) == Join(Map1(prefix, items), <<"\n">>)

\* items.length > 0 ? items.map(...).join('\n') : fallback
BulletsOr(prefix, items, fallback) ==
  IF Len(items) > 0 THEN Bullets(prefix, items) ELSE <<fallback>>

\* the fenced code block; the token "[fence]" is the three-backquote fence
CodeFence(language, originalCode) ==
  <<"[fence]", language, "\n">> \o originalCode \o <<"\n", "[fence]", "\n">>

formatTechnicalPrompt(analysis, originalCode, task) ==
  LET links == analysis.groundingLinks
      base == <<"Ola! Por favor, comporte-se como um engenheiro de software senior especialista.",
                "\n\n", "**Resumo da Analise:**", "\n\n",
                "- **Linguagem/Framework Principal:** ">> \o LfText(analysis)
              \o <<"\n", "- **Objetivo Principal:** ", analysis.mainObjective,
                   "\n", "- **Proposito Tecnico:** ", analysis.technicalPurpose,
                   "\n\n", "**Funcionalidades Chave:**", "\n">>
              \o Bullets("- ", analysis.keyFeatures)
              \o <<"\n\n", "**Estrutura do Codigo:**", "\n",
                   "- **Classes/Componentes Principais:**", "\n">>
              \o BulletsOr("  - ", analysis.structureClasses, "  - Nenhuma identificada")
              \o <<"\n", "- **Funcoes/Metodos Principais:**", "\n">>
              \o BulletsOr("  - ", analysis.structureFunctions, "  - Nenhuma identificada")
              \o <<"\n", "- **Dependencias Criticas:**", "\n">>
              \o BulletsOr("  - ", analysis.dependencies, "  - Nenhuma identificada")
              \o <<"\n\n", "**Codigo-Fonte de Referencia:**", "\n">>
              \o CodeFence(LanguageOf(analysis), originalCode)
      refs == IF links.defined /\ Len(links.links) > 0
              THEN <<"\n", "**Referencias Externas (Documentacao):**", "\n">>
                   \o Join([i \in 1..Len(links.links) |->
                              <<"- [", links.links[i].title, "](", links.links[i].url, ")">>],
                           <<"\n">>)
                   \o <<"\n">>
              ELSE <<>>
      tsk == IF task # ""
             THEN <<"\n", "**Tarefa Solicitada:**", "\n",
                    "Com base na analise e no codigo fornecido, execute a seguinte tarefa: **",
                    task, "**">>
             ELSE <<>>
  IN  Trim(base \o refs \o tsk)

formatCompactPrompt(analysis, originalCode, task) ==
  LET base == <<"Atue como um engenheiro de software senior. Analise o codigo de forma direta e objetiva.",
                "\n\n", "**Contexto Essencial:**", "\n", "- **Linguagem/Framework:** ">>
              \o LfText(analysis)
              \o <<"\n", "- **Objetivo Principal:** ", analysis.mainObjective,
                   "\n\n", "**Funcionalidades Chave:**", "\n">>
              \o Bullets("- ", analysis.keyFeatures)
              \o <<"\n\n", "**Codigo de Referencia:**", "\n">>
              \o CodeFence(LanguageOf(analysis), originalCode)
      tsk == IF task # "" THEN <<"\n", "**Tarefa:**", "\n", task>> ELSE <<>>
  IN  Trim(base \o tsk)

\* the mutant of formatConcisePrompt: the task section is not guarded
formatConcisePrompt_TaskAlways(analysis, originalCode, task) ==
  LET base == <<"**Linguagem:** ">> \o LfText(analysis)
              \o <<"\n", "**Objetivo:** ", analysis.mainObjective,
                   "\n\n", "**Funcionalidades:**", "\n">>
              \o Bullets("- ", analysis.keyFeatures)
              \o <<"\n\n", "**Codigo:**", "\n">>
              \o CodeFence(LanguageOf(analysis), originalCode)
      tsk == <<"\n", "**Tarefa:** ", task>>
  IN  Trim(base \o tsk)

formatConcisePrompt(analysis, originalCode, task) ==
  LET base == <<"**Linguagem:** ">> \o LfText(analysis)
              \o <<"\n", "**Objetivo:** ", analysis.mainObjective,
                   "\n\n", "**Funcionalidades:**", "\n">>
              \o Bullets("- ", analysis.keyFeatures)
              \o <<"\n\n", "**Codigo:**", "\n">>
              \o CodeFence(LanguageOf(analysis), originalCode)
      tsk == IF task # "" THEN <<"\n", "**Tarefa:** ", task>> ELSE <<>>
  IN  Trim(base \o tsk)

formatPopularPrompt(analysis, originalCode, task) ==
  LET base == <<"Me explica de um jeito facil o que esse codigo em **">>
              \o LfText(analysis)
              \o <<"** faz.", "\n\n", "**O que ele faz, em poucas palavras:**", "\n",
                   analysis.mainObjective, "\n\n",
                   "**Principais funcionalidades (o que ele consegue fazer):**", "\n">>
              \o Bullets("- ", analysis.keyFeatures)
              \o <<"\n\n", "Para referencia, aqui esta o codigo completo:", "\n">>
              \o CodeFence(LanguageOf(analysis), originalCode)
      tsk == IF task # ""
             THEN <<"\n", "Agora, com base no que voce entendeu, me ajude com isso:",
                    "\n", "**", task, "**">>
             ELSE <<>>
  IN  Trim(base \o tsk)

formatFriendlyPrompt(analysis, originalCode, task) ==
  LET base == <<"Oi! Gostaria de conversar sobre este codigo em **">>
              \o LfText(analysis)
              \o <<"**.", "\n\n", "**O que ele e:**", "\n", analysis.mainObjective,
                   "\n\n", "**Funcionalidades legais:**", "\n">>
              \o Bullets("* ", analysis.keyFeatures)
              \o <<"\n\n", "**Aqui esta o codigo original:**", "\n">>
              \o CodeFence(LanguageOf(analysis), originalCode)
      tsk == IF task # ""
             THEN <<"\n", "**Poderia me ajudar com isso?**", "\n", task>>
             ELSE <<"\n", "Me diga o que acha dele!">>
  IN  Trim(base \o tsk)

formatDescriptivePrompt(analysis, originalCode, task) ==
  LET base == <<"Voce e um especialista em tecnologia focado em explicar solucoes para pessoas nao tecnicas.",
                "\n\n", "**Resumo do Produto:**", "\n", analysis.mainObjective,
                "\n\n", "**O que eu consigo fazer com isso (Funcionalidades):**", "\n">>
              \o Bullets("- ", analysis.keyFeatures)
              \o <<"\n\n", "**Contexto:**", "\n\n", "**Arquivo de Referencia (Codigo):**", "\n">>
              \o CodeFence("text", originalCode)
      tsk == IF task # "" THEN <<"\n", "**Gostaria de ajuda com:**", "\n", task>> ELSE <<>>
  IN  Trim(base \o tsk)

\* the structure block shared by the lovable and base44 templates
StructureBlock(analysis) ==
  (IF Len(analysis.structureClasses) > 0
     THEN Bullets("[class] ", analysis.structureClasses) ELSE <<"">>)
  \o <<"\n">>
  \o (IF Len(analysis.structureFunctions) > 0
        THEN Bullets("[fn] ", analysis.structureFunctions) ELSE <<"">>)
  \o <<"\n">>
  \o (IF Len(analysis.structureClasses) = 0 /\ Len(analysis.structureFunctions) = 0
        THEN <<"Estrutura simplificada">> ELSE <<"">>)

formatLovablePrompt(analysis, originalCode, task) ==
  LET base == <<"**Ola! Vamos transformar codigo em algo incrivel!**", "\n\n",
                "**Visao Geral:**", "\n", analysis.mainObjective, "\n\n",
                "**A Logica Brilhante:**", "\n", analysis.technicalPurpose, "\n\n",
                "**Tech Stack:** ">> \o LfText(analysis)
              \o <<"\n\n", "**Funcionalidades Magicas:**", "\n">>
              \o Bullets("+ ", analysis.keyFeatures)
              \o <<"\n\n", "**Estrutura:**", "\n">>
              \o StructureBlock(analysis)
              \o <<"\n\n", "**Dependencias:**", "\n">>
              \o BulletsOr("[dep] ", analysis.dependencies, "[dep] Sem dependencias extras")
              \o <<"\n\n", "**Codigo-Fonte:**", "\n">>
              \o CodeFence(LanguageOf(analysis), originalCode)
      tsk == IF task # "" THEN <<"\n", "**Sua Missao Criativa:**", "\n", task>> ELSE <<>>
  IN  Trim(base \o tsk)

formatBase44Prompt(analysis, originalCode, task) ==
  LET base == <<"@@BEGIN_PROMPT_TRANSMISSION", "\n", "@@FORMAT: Base44", "\n\n",
                "@@OBJECTIVE:", "\n", analysis.mainObjective, "\n\n",
                "@@DEEP_DIVE:", "\n", analysis.technicalPurpose, "\n\n",
                "@@CORE_TECH: ">> \o LfText(analysis)
              \o <<"\n\n", "@@SUPERPOWERS:", "\n">>
              \o Bullets("+ ", analysis.keyFeatures)
              \o <<"\n\n", "@@BLUEPRINT:", "\n">>
              \o StructureBlock(analysis)
              \o <<"\n\n", "@@SECRET_SAUCE:", "\n">>
              \o BulletsOr("[dep] ", analysis.dependencies, "[dep] Sem dependencias extras")
              \o <<"\n\n", "@@SOURCE_CODE:", "\n">>
              \o CodeFence(LanguageOf(analysis), originalCode)
      tsk == IF task # ""
             THEN <<"\n", "@@YOUR_MISSION:", "\n",
                    "Com base em tudo isso, vamos criar magica: **", task, "**">>
             ELSE <<>>
  IN  Trim(base \o tsk \o <<"\n\n", "@@END_PROMPT_TRANSMISSION">>)

\* the formatters record of displayedPrompt
formatters(style, analysis, originalCode, task) ==
  CASE style = "technical"   -> formatTechnicalPrompt(analysis, originalCode, task)
    [] style = "compact"     -> formatCompactPrompt(analysis, originalCode, task)
    [] style = "concise"     -> formatConcisePrompt(analysis, originalCode, task)
    [] style = "popular"     -> formatPopularPrompt(analysis, originalCode, task)
    [] style = "friendly"    -> formatFriendlyPrompt(analysis, originalCode, task)
    [] style = "descriptive" -> formatDescriptivePrompt(analysis, originalCode, task)
    [] style = "lovable"     -> formatLovablePrompt(analysis, originalCode, task)
    [] style = "base44"      -> formatBase44Prompt(analysis, originalCode, task)

\* displayedPrompt (useMemo), as a function of the state it reads
\* the mutant of DisplayedPromptOf: the memo is not recomputed for a new style
DisplayedPromptOf_StyleIgnored(refined, ctx, style) ==
  IF ~refined.null /\ refined.text # <<>> THEN refined.text
  ELSE IF ctx = NoContext THEN <<>>
  ELSE formatters("technical", ctx.analysis, ctx.code, ctx.task)

DisplayedPromptOf(refined, ctx, style) ==
  IF ~refined.null /\ refined.text # <<>> THEN refined.text
  ELSE IF ctx = NoContext THEN <<>>
  ELSE formatters(style, ctx.analysis, ctx.code, ctx.task)

displayedPrompt == DisplayedPromptOf(refinedPrompt, currentContext, promptStyle)

\* isRefined={!!refinedPrompt}
isRefined == ~refinedPrompt.null /\ refinedPrompt.text # <<>>

\* What App renders in the output pane: PromptOutput only when there is no
\* error and no analysis in flight; its controls only when prompt is non-empty.
PromptOutputMounted == error = "null" /\ ~isLoading
ControlsShown == PromptOutputMounted /\ displayedPrompt # <<>>

NoLoadingMedia == [k \in MediaKinds |-> FALSE]

(***************************************************************************)
(* Requests in flight.                                                     *)
(***************************************************************************)
\* what the await of generateContent in analyzeCode ends with: a rejection
\* with the upstream message, or a response with its text
NoResponse == [rejected |-> FALSE, message |-> "", text |-> <<>>]

NoAnalysisRequest ==
  [active |-> FALSE, phase |-> "none", code |-> <<>>, task |-> "",
   grounding |-> FALSE, result |-> NoAnalysis,
   query |-> <<>>, links |-> <<>>, failed |-> FALSE, response |-> NoResponse]

\* switched is an observer field: the current context's id changed since the
\* request was issued
NoRefineRequest == [active |-> FALSE, switched |-> FALSE]

ApiKey == "API_KEY"

\* the results the media endpoints may deliver
ImageBytes == {"img"}
AudioData == {"wav"}
VideoUris == {"https://video/1?alt=media"}

RemoveAt(seq, i) == SubSeq(seq, 1, i - 1) \o SubSeq(seq, i + 1, Len(seq))

(***************************************************************************)
(* App.tsx: the code input callbacks that App hands to CodeInput.          *)
(***************************************************************************)
\* CodeInput handleTextChange: only with at most one file loaded
handleTextChange ==
  /\ Len(uploadedFiles) <= 1
  /\ \E content \in {PastedFile.content} :
       uploadedFiles' =
         <<[path |-> IF Len(uploadedFiles) = 1 THEN uploadedFiles[1].path
                     ELSE PastedFile.path,
            content |-> content]>>
  /\ UNCHANGED <<additionalTask, useSearchGrounding, history, currentContext,
                 promptStyle, refinedPrompt, isLoading, isRefining, error,
                 loadingMedia, pendingAnalysis, pendingRefine, pendingMedia,
                 nextId, mediaWrites, videoDone, selectTick, alertTick, repoVars, urlVars>>

\* CodeInput handleFileChange, all selected files valid and read
handleFileChangeOf(lists) ==
  /\ \E files \in lists : Len(files) > 1 /\ uploadedFiles' = files
  /\ UNCHANGED <<additionalTask, useSearchGrounding, history, currentContext,
                 promptStyle, refinedPrompt, isLoading, isRefining, error,
                 loadingMedia, pendingAnalysis, pendingRefine, pendingMedia,
                 nextId, mediaWrites, videoDone, selectTick, alertTick, repoVars, urlVars>>

handleFileChange == handleFileChangeOf(FileLists)

\* CodeInput handleClearFiles (the button shows only with files loaded)
handleClearFiles ==
  /\ Len(uploadedFiles) > 0
  /\ uploadedFiles' = <<>>
  /\ UNCHANGED <<additionalTask, useSearchGrounding, history, currentContext,
                 promptStyle, refinedPrompt, isLoading, isRefining, error,
                 loadingMedia, pendingAnalysis, pendingRefine, pendingMedia,
                 nextId, mediaWrites, videoDone, selectTick, alertTick, repoVars, urlVars>>

setAdditionalTask ==
  /\ \E t \in Tasks : t # additionalTask /\ additionalTask' = t
  /\ UNCHANGED <<uploadedFiles, useSearchGrounding, history, currentContext,
                 promptStyle, refinedPrompt, isLoading, isRefining, error,
                 loadingMedia, pendingAnalysis, pendingRefine, pendingMedia,
                 nextId, mediaWrites, videoDone, selectTick, alertTick, repoVars, urlVars>>

setUseSearchGrounding ==
  /\ useSearchGrounding' = ~useSearchGrounding
  /\ UNCHANGED <<uploadedFiles, additionalTask, history, currentContext,
                 promptStyle, refinedPrompt, isLoading, isRefining, error,
                 loadingMedia, pendingAnalysis, pendingRefine, pendingMedia,
                 nextId, mediaWrites, videoDone, selectTick, alertTick, repoVars, urlVars>>

(***************************************************************************)
(* App.tsx: handleGeneratePrompt, one action per await.                    *)
(***************************************************************************)
\* observer update: a pending refinement request sees the context id change
RefineAfterSwitch(newId) ==
  IF pendingRefine.active /\ newId # currentContext.id
  THEN [pendingRefine EXCEPT !.switched = TRUE]
  ELSE pendingRefine

\* up to the first await.  Setting isLoading replaces PromptOutput by the
\* loader: the instance is unmounted, its loadingMedia state is gone and the
\* setLoadingMedia calls of its suspended handlers become no-ops.
handleGeneratePrompt ==
  /\ ~isLoading
  /\ Len(uploadedFiles) > 0
  /\ nextId <= MaxContexts
  /\ isLoading' = TRUE
  /\ error' = "null"
  /\ refinedPrompt' = NullPrompt
  /\ pendingAnalysis' =
       [active |-> TRUE, phase |-> "analyzeCode",
        code |-> combinedCodeOf(uploadedFiles), task |-> additionalTask,
        grounding |-> useSearchGrounding, result |-> NoAnalysis,
        query |-> <<>>, links |-> <<>>, failed |-> FALSE, response |-> NoResponse]
  /\ loadingMedia' = NoLoadingMedia
  /\ pendingMedia' = [i \in 1..Len(pendingMedia) |-> [pendingMedia[i] EXCEPT !.live = FALSE]]
  /\ UNCHANGED <<uploadedFiles, additionalTask, useSearchGrounding, history,
                 currentContext, promptStyle, isRefining, pendingRefine, nextId,
                 mediaWrites, videoDone, selectTick, alertTick, repoVars, urlVars>>

\* the mutant of PrependContext: the new context is appended
PrependContext_Appended(newContext, prev) == Append(prev, newContext)

\* setHistory(prev => [newContext, ...prev])
PrependContext(newContext, prev) == <<newContext>> \o prev

\* the mutant of NewContext: code and task are read when the analysis ends
NewContext_LiveInputs(result) ==
  [id |-> nextId, analysis |-> result, code |-> combinedCodeOf(uploadedFiles),
   task |-> additionalTask, timestamp |-> nextId,
   generatedLogoUrl |-> NoUrl, generatedAudioUrl |-> NoUrl,
   generatedVideoUrl |-> NoUrl]

\* newContext: combinedCode and additionalTask are those of the render in
\* which Generate was clicked
NewContext(result) ==
  [id |-> nextId, analysis |-> result, code |-> pendingAnalysis.code,
   task |-> pendingAnalysis.task, timestamp |-> nextId,
   generatedLogoUrl |-> NoUrl, generatedAudioUrl |-> NoUrl,
   generatedVideoUrl |-> NoUrl]

\* the tail of handleGeneratePrompt: build the context, make it current,
\* prepend it; the effect on [promptStyle, currentContext] clears the
\* refinement; finally isLoading false mounts a fresh PromptOutput
FinishAnalysis(result) ==
  LET newContext == NewContext(result)
  IN  /\ currentContext' = newContext
      /\ history' = PrependContext(newContext, history)
      /\ nextId' = nextId + 1
      /\ refinedPrompt' = NullPrompt
      /\ pendingRefine' = RefineAfterSwitch(nextId)
      /\ isLoading' = FALSE
      /\ loadingMedia' = NoLoadingMedia
      /\ pendingAnalysis' = NoAnalysisRequest

GroundingQueryLimit == 5

\* the mutant of GroundingQuery: every dependency is put into the query
GroundingQuery_All(dependencies) ==
  Join([i \in 1..Len(dependencies) |-> <<dependencies[i]>>], <<", ">>)

\* dependencies.slice(0, 5).join(', '), the variable part of the query
GroundingQuery(dependencies) ==
  LET first == SubSeq(dependencies, 1,
                      IF Len(dependencies) < GroundingQueryLimit THEN Len(dependencies)
                      ELSE GroundingQueryLimit)
  IN  Join([i \in 1..Len(first) |-> <<first[i]>>], <<", ">>)

\* analyzeCode resolves with one of the given results
AnalyzeCodeResolves(results) ==
  /\ pendingAnalysis.active
  /\ pendingAnalysis.phase = "analyzeCode"
  /\ \E result \in results :
       IF pendingAnalysis.grounding /\ Len(result.dependencies) > 0
       THEN /\ pendingAnalysis' =
                 [pendingAnalysis EXCEPT !.phase = "researchContext", !.result = result,
                                         !.query = GroundingQuery(result.dependencies)]
            /\ UNCHANGED <<history, currentContext, refinedPrompt, isLoading,
                           loadingMedia, pendingRefine, nextId>>
       ELSE FinishAnalysis(result)
  /\ UNCHANGED <<uploadedFiles, additionalTask, useSearchGrounding, promptStyle,
                 isRefining, error, pendingMedia, mediaWrites, videoDone, selectTick, alertTick, repoVars, urlVars>>

AnalyzeCodeReturns == AnalyzeCodeResolves(AnalysisResults)

\* a step of researchContext: handleGeneratePrompt stays suspended
GroundingStep(request) ==
  /\ pendingAnalysis.active
  /\ pendingAnalysis.phase = "researchContext"
  /\ pendingAnalysis' = request
  /\ UNCHANGED <<uploadedFiles, additionalTask, useSearchGrounding, history,
                 currentContext, promptStyle, refinedPrompt, isLoading, isRefining,
                 error, loadingMedia, pendingRefine, pendingMedia, nextId, mediaWrites,
                 videoDone, selectTick, alertTick, repoVars, urlVars>>

\* researchContext: generateContent resolves; the chunks with uri and title
\* are returned, or an empty list if there are none
researchContextResolves ==
  \E links \in GroundingResults :
    GroundingStep([pendingAnalysis EXCEPT !.phase = "grounded", !.links = links])

\* researchContext: generateContent rejects; the catch returns an empty list
researchContextFails ==
  GroundingStep([pendingAnalysis EXCEPT !.phase = "grounded", !.links = <<>>,
                                        !.failed = TRUE])

\* handleGeneratePrompt resumes with the links (researchContext never rejects)
ResearchContextReturns ==
  /\ pendingAnalysis.active
  /\ pendingAnalysis.phase = "grounded"
  /\ FinishAnalysis([pendingAnalysis.result EXCEPT
                       !.groundingLinks = [defined |-> TRUE, links |-> pendingAnalysis.links]])
  /\ UNCHANGED <<uploadedFiles, additionalTask, useSearchGrounding, promptStyle,
                 isRefining, error, pendingMedia, mediaWrites, videoDone, selectTick, alertTick, repoVars, urlVars>>

\* analyzeCode rejects: catch sets the error, finally clears isLoading
AnalyzeCodeThrows ==
  /\ pendingAnalysis.active
  /\ pendingAnalysis.phase = "analyzeCode"
  /\ error' = "Falha na analise do codigo"
  /\ isLoading' = FALSE
  /\ pendingAnalysis' = NoAnalysisRequest
  /\ UNCHANGED <<uploadedFiles, additionalTask, useSearchGrounding, history,
                 currentContext, promptStyle, refinedPrompt, isRefining,
                 loadingMedia, pendingRefine, pendingMedia, nextId, mediaWrites,
                 videoDone, selectTick, alertTick, repoVars, urlVars>>

\* the ways generateContent may end: rejected by the API (bad key, network,
\* server), or answered with a blank text, a JSON text cut short, a text
\* that is no JSON, or the JSON of an analysis
ApiResponses ==
  { [rejected |-> TRUE, message |-> "API key not valid. Please pass a valid API key.",
     text |-> <<>>],
    [rejected |-> TRUE, message |-> "xhr error", text |-> <<>>],
    [rejected |-> TRUE, message |-> "500 server error", text |-> <<>>],
    [rejected |-> FALSE, message |-> "", text |-> <<" ", "\n">>],
    [rejected |-> FALSE, message |-> "", text |-> <<"{", "counter">>],
    [rejected |-> FALSE, message |-> "", text |-> <<"Desculpe, nao consigo analisar.">>],
    [rejected |-> FALSE, message |-> "", text |-> <<"\n", "{", "counter", "}", "\n">>],
    [rejected |-> FALSE, message |-> "", text |-> <<"{", "script", "}">>] }

\* JSON.parse on the texts of the model: a document is "{", the name of the
\* analysis it encodes, "}"; the messages are those of V8
JsonParse(jsonText) ==
  IF jsonText = <<>>
  THEN [ok |-> FALSE, message |-> "Unexpected end of JSON input", value |-> NoAnalysis]
  ELSE IF Head(jsonText) # "{"
  THEN [ok |-> FALSE, message |-> "Unexpected token D in JSON at position 0",
        value |-> NoAnalysis]
  ELSE IF Len(jsonText) # 3 \/ jsonText[3] # "}"
          \/ ~\E r \in AnalysisResults : r.mainObjective = jsonText[2]
  THEN [ok |-> FALSE, message |-> "Unexpected end of JSON input", value |-> NoAnalysis]
  ELSE [ok |-> TRUE, message |-> "",
        value |-> CHOOSE r \in AnalysisResults : r.mainObjective = jsonText[2]]

\* analyzeCode from the point where generateContent has settled: the result
\* it resolves with, or the message of the Error it rejects with
analyzeCode(response) ==
  LET parsed == JsonParse(Trim(response.text))
      message == IF response.rejected THEN response.message ELSE parsed.message
  IN  IF ~response.rejected /\ parsed.ok
      THEN [ok |-> TRUE, value |-> parsed.value, message |-> ""]
      ELSE [ok |-> FALSE, value |-> NoAnalysis,
            message |-> "Falha na analise do codigo: " \o message]

\* generateContent settles inside analyzeCode
generateContentSettles ==
  /\ pendingAnalysis.active
  /\ pendingAnalysis.phase = "analyzeCode"
  /\ \E response \in ApiResponses :
       pendingAnalysis' = [pendingAnalysis EXCEPT !.phase = "analyzed",
                                                  !.response = response]
  /\ UNCHANGED <<uploadedFiles, additionalTask, useSearchGrounding, history,
                 currentContext, promptStyle, refinedPrompt, isLoading, isRefining,
                 error, loadingMedia, pendingRefine, pendingMedia, nextId, mediaWrites,
                 videoDone, selectTick, alertTick, repoVars, urlVars>>

\* the mutant of analyzeCodeSettles: a failed call is issued again
analyzeCodeSettles_Retry ==
  /\ pendingAnalysis.active
  /\ pendingAnalysis.phase = "analyzed"
  /\ LET outcome == analyzeCode(pendingAnalysis.response)
     IN  IF outcome.ok
         THEN /\ FinishAnalysis(outcome.value)
              /\ error' = error
         ELSE /\ pendingAnalysis' = [pendingAnalysis EXCEPT !.phase = "analyzeCode",
                                                           !.response = NoResponse]
              /\ UNCHANGED <<history, currentContext, refinedPrompt, loadingMedia,
                             pendingRefine, nextId, error, isLoading>>
  /\ UNCHANGED <<uploadedFiles, additionalTask, useSearchGrounding, promptStyle,
                 isRefining, pendingMedia, mediaWrites, videoDone, selectTick,
                 alertTick, repoVars, urlVars>>

\* handleGeneratePrompt resumes after analyzeCode: with the result it goes on
\* to the context (grounding is off in the specification that uses this
\* action), with the Error it sets the message; finally clears isLoading
analyzeCodeSettles ==
  /\ pendingAnalysis.active
  /\ pendingAnalysis.phase = "analyzed"
  /\ LET outcome == analyzeCode(pendingAnalysis.response)
     IN  IF outcome.ok
         THEN /\ FinishAnalysis(outcome.value)
              /\ error' = error
         ELSE /\ error' = outcome.message
              /\ isLoading' = FALSE
              /\ pendingAnalysis' = NoAnalysisRequest
              /\ UNCHANGED <<history, currentContext, refinedPrompt, loadingMedia,
                             pendingRefine, nextId>>
  /\ UNCHANGED <<uploadedFiles, additionalTask, useSearchGrounding, promptStyle,
                 isRefining, pendingMedia, mediaWrites, videoDone, selectTick,
                 alertTick, repoVars, urlVars>>

(***************************************************************************)
(* App.tsx: refinement, style and history selection.                       *)
(***************************************************************************)
\* handleRefinePrompt up to the await; the submit button is disabled while
\* isRefining, the instructions are non-empty
handleRefinePrompt ==
  /\ ControlsShown
  /\ ~isRefining
  /\ isRefining' = TRUE
  /\ pendingRefine' = [active |-> TRUE, switched |-> FALSE]
  /\ UNCHANGED <<uploadedFiles, additionalTask, useSearchGrounding, history,
                 currentContext, promptStyle, refinedPrompt, isLoading, error,
                 loadingMedia, pendingAnalysis, pendingMedia, nextId, mediaWrites,
                 videoDone, selectTick, alertTick, repoVars, urlVars>>

\* refinePrompt resolves: setRefinedPrompt(refined), finally isRefining false
RefinePromptReturns ==
  /\ pendingRefine.active
  /\ \E refined \in RefinedTexts :
       refinedPrompt' = [null |-> FALSE, text |-> refined]
  /\ isRefining' = FALSE
  /\ pendingRefine' = NoRefineRequest
  /\ UNCHANGED <<uploadedFiles, additionalTask, useSearchGrounding, history,
                 currentContext, promptStyle, isLoading, error, loadingMedia,
                 pendingAnalysis, pendingMedia, nextId, mediaWrites, videoDone, selectTick, alertTick, repoVars, urlVars>>

\* refinePrompt rejects: alert, finally isRefining false
RefinePromptThrows ==
  /\ pendingRefine.active
  /\ isRefining' = FALSE
  /\ pendingRefine' = NoRefineRequest
  /\ UNCHANGED <<uploadedFiles, additionalTask, useSearchGrounding, history,
                 currentContext, promptStyle, refinedPrompt, isLoading, error,
                 loadingMedia, pendingAnalysis, pendingMedia, nextId, mediaWrites,
                 videoDone, selectTick, repoVars, urlVars>>
  /\ alertTick' = ~alertTick

\* the revert button shows only when isRefined
handleRevertRefinement ==
  /\ ControlsShown
  /\ isRefined
  /\ refinedPrompt' = NullPrompt
  /\ UNCHANGED <<uploadedFiles, additionalTask, useSearchGrounding, history,
                 currentContext, promptStyle, isLoading, isRefining, error,
                 loadingMedia, pendingAnalysis, pendingRefine, pendingMedia,
                 nextId, mediaWrites, videoDone, selectTick, alertTick, repoVars, urlVars>>

\* the mutant of RefinedAfterDeps: the effect never clears the refinement
RefinedAfterDeps_NoEffect(depsChanged) == refinedPrompt

\* useEffect(() => setRefinedPrompt(null), [promptStyle, currentContext]):
\* the value of refinedPrompt after a render in which the deps did or did
\* not change (Object.is)
RefinedAfterDeps(depsChanged) == IF depsChanged THEN NullPrompt ELSE refinedPrompt

\* a style button of PromptOutput, among the given ones
SelectStyle(styles) ==
  /\ ControlsShown
  /\ \E style \in styles :
       /\ promptStyle' = style
       /\ refinedPrompt' = RefinedAfterDeps(style # promptStyle)
  /\ UNCHANGED <<uploadedFiles, additionalTask, useSearchGrounding, history,
                 currentContext, isLoading, isRefining, error, loadingMedia,
                 pendingAnalysis, pendingRefine, pendingMedia, nextId,
                 mediaWrites, videoDone, selectTick, alertTick, repoVars, urlVars>>

setPromptStyle == SelectStyle(PromptStyle)

\* handleSelectHistory(context), context an entry of the rendered history.
\* The current context is always the history object of its id, so the
\* state is unchanged (and the effect does not run) exactly when the entry
\* equals the current context.
handleSelectHistory ==
  /\ ControlsShown
  /\ \E i \in 1..Len(history) :
       /\ currentContext' = history[i]
       /\ refinedPrompt' = RefinedAfterDeps(history[i] # currentContext)
       /\ pendingRefine' = RefineAfterSwitch(history[i].id)
  /\ selectTick' = ~selectTick
  /\ UNCHANGED <<uploadedFiles, additionalTask, useSearchGrounding, history,
                 promptStyle, isLoading, isRefining, error, loadingMedia,
                 pendingAnalysis, pendingMedia, nextId, mediaWrites, videoDone, alertTick, repoVars, urlVars>>

(***************************************************************************)
(* PromptOutput.tsx: the creative tools; geminiService.ts: the generators. *)
(***************************************************************************)
WithMedia(ctx, type, mediaUrl) ==
  CASE type = "logo"  -> [ctx EXCEPT !.generatedLogoUrl = mediaUrl]
    [] type = "audio" -> [ctx EXCEPT !.generatedAudioUrl = mediaUrl]
    [] type = "video" -> [ctx EXCEPT !.generatedVideoUrl = mediaUrl]

\* observer: one more write of (id, type), counted up to 2
CountWrite(id, type) ==
  [mediaWrites EXCEPT ![<<id, type>>] = IF @ < 2 THEN @ + 1 ELSE @]

\* the mutant of ReplaceById: history is left as it is
ReplaceById_Kept(prev, updated) == prev

\* prev.map(h => h.id === updated.id ? updated : h)
ReplaceById(prev, updated) ==
  [j \in 1..Len(prev) |-> IF prev[j].id = updated.id THEN updated ELSE prev[j]]

\* updateContextWithMedia as the suspended handler calls it: ctx is the
\* currentContext of the render in which the button was clicked (the
\* onUpdateContext prop captured then closes over it); the history update
\* is functional and sees the latest history.  updated is a new object, so
\* the effect on [promptStyle, currentContext] runs.
updateContextWithMedia(ctx, type, mediaUrl) ==
  IF ctx = NoContext
  THEN UNCHANGED <<currentContext, history, refinedPrompt, pendingRefine, mediaWrites>>
  ELSE LET updated == WithMedia(ctx, type, mediaUrl)
       IN  /\ currentContext' = updated
           /\ history' = ReplaceById(history, updated)
           /\ refinedPrompt' = RefinedAfterDeps(TRUE)
           /\ pendingRefine' = RefineAfterSwitch(updated.id)
           /\ mediaWrites' = CountWrite(updated.id, type)

\* the mutant of ClearLoading: no finally block, the flag is left set
ClearLoading_Kept(r) == loadingMedia

\* the mutant of ClearLoading: the flags are reset as a whole
ClearLoading_All(r) == NoLoadingMedia

\* finally { setLoadingMedia(prev => ({ ...prev, [kind]: false })) }, a no-op
\* when the instance that started the request is unmounted
ClearLoading(r) ==
  IF r.live THEN [loadingMedia EXCEPT ![r.kind] = FALSE] ELSE loadingMedia

\* the media button: disabled while loading or once the field is set
StartMedia(kind) ==
  /\ ControlsShown
  /\ ~loadingMedia[kind]
  /\ MediaUrl(currentContext, kind) = NoUrl
  /\ Len(pendingMedia) < MaxPendingMedia
  /\ loadingMedia' = [loadingMedia EXCEPT ![kind] = TRUE]
  /\ pendingMedia' =
       Append(pendingMedia,
              [kind |-> kind, ctx |-> currentContext, live |-> TRUE,
               pc |-> IF kind = "video" THEN "generateVideos" ELSE "request",
               delays |-> 0, polls |-> 0])
  /\ UNCHANGED <<uploadedFiles, additionalTask, useSearchGrounding, history,
                 currentContext, promptStyle, refinedPrompt, isLoading,
                 isRefining, error, pendingAnalysis, pendingRefine, nextId,
                 mediaWrites, videoDone, selectTick, alertTick, repoVars, urlVars>>

handleGenerateLogo == StartMedia("logo")

handleGenerateAudio == StartMedia("audio")

handleGenerateVideo == StartMedia("video")

\* the handler resumes with a URL: onUpdateContext, then finally
MediaSucceeds(i, mediaUrl) ==
  LET r == pendingMedia[i]
  IN  /\ updateContextWithMedia(r.ctx, r.kind, mediaUrl)
      /\ loadingMedia' = ClearLoading(r)
      /\ pendingMedia' = RemoveAt(pendingMedia, i)
      /\ UNCHANGED <<uploadedFiles, additionalTask, useSearchGrounding,
                     promptStyle, isLoading, isRefining, error, pendingAnalysis,
                     nextId, selectTick, alertTick, repoVars, urlVars>>

\* the handler resumes with an exception: alert, then finally
MediaFails(i) ==
  LET r == pendingMedia[i]
  IN  /\ loadingMedia' = ClearLoading(r)
      /\ pendingMedia' = RemoveAt(pendingMedia, i)
      /\ UNCHANGED <<uploadedFiles, additionalTask, useSearchGrounding, history,
                     currentContext, promptStyle, refinedPrompt, isLoading,
                     isRefining, error, pendingAnalysis, pendingRefine, nextId,
                     mediaWrites, selectTick, repoVars, urlVars>>
      /\ alertTick' = ~alertTick

\* generateProjectLogo resolves with a data URI
GenerateProjectLogoReturns ==
  \E i \in 1..Len(pendingMedia) :
    /\ pendingMedia[i].kind = "logo"
    /\ \E bytes \in ImageBytes : MediaSucceeds(i, "data:image/jpeg;base64," \o bytes)
    /\ UNCHANGED videoDone

\* generateAudioSummary resolves with a data URI
GenerateAudioSummaryReturns ==
  \E i \in 1..Len(pendingMedia) :
    /\ pendingMedia[i].kind = "audio"
    /\ \E data \in AudioData : MediaSucceeds(i, "data:audio/wav;base64," \o data)
    /\ UNCHANGED videoDone

\* a generator rejects while a request of it is outstanding (for audio also
\* when the response carries no audio data)
GeneratorThrowsFor(kind) ==
  \E i \in 1..Len(pendingMedia) :
    /\ pendingMedia[i].kind = kind
    /\ pendingMedia[i].pc \in {"request", "generateVideos", "getVideosOperation"}
    /\ MediaFails(i)
    /\ UNCHANGED videoDone

GeneratorThrows == \E kind \in MediaKinds : GeneratorThrowsFor(kind)

\* the operations the video endpoint may answer with: done or not, with or
\* without a video URI in the response
Operations == [done : BOOLEAN, uri : VideoUris \cup {NoUrl}]

\* the mutant of LoopExits: the loop is left on the first answer
LoopExits_Always(operation) == TRUE

\* while (!operation.done)
LoopExits(operation) == operation.done

\* const videoUrlWithKey = "${videoUri}&key=${process.env.API_KEY}"
VideoUrlWithKey(videoUri) == videoUri \o "&key=" \o ApiKey

\* generateVideos or getVideosOperation resolves with one of the given
\* operations; capped: the job reports "not done" at most MaxPolls times
VideoOperationResolves(operations, capped) ==
  \E i \in 1..Len(pendingMedia) : \E operation \in operations :
    LET r == pendingMedia[i]
    IN  /\ r.pc \in {"generateVideos", "getVideosOperation"}
        /\ videoDone' = IF operation.done THEN videoDone \cup {r.ctx.id} ELSE videoDone
        /\ IF ~LoopExits(operation)
           THEN \* await new Promise(resolve => setTimeout(resolve, 5000))
                /\ capped => r.polls < MaxPolls
                /\ pendingMedia' = [pendingMedia EXCEPT ![i].pc = "delay"]
                /\ UNCHANGED <<uploadedFiles, additionalTask, useSearchGrounding,
                               history, currentContext, promptStyle, refinedPrompt,
                               isLoading, isRefining, error, loadingMedia,
                               pendingAnalysis, pendingRefine, nextId, mediaWrites,
                               selectTick, alertTick, repoVars, urlVars>>
           ELSE IF operation.uri = NoUrl
                THEN MediaFails(i)
                ELSE MediaSucceeds(i, VideoUrlWithKey(operation.uri))

VideoOperationReturns == VideoOperationResolves(Operations, TRUE)

\* the 5 s timer has fired and getVideosOperation is called (the two
\* counters are observers and stop counting at MaxPolls)
PollAfterDelay(r) ==
  [r EXCEPT !.pc = "getVideosOperation",
            !.delays = IF @ < MaxPolls THEN @ + 1 ELSE @,
            !.polls = IF @ < MaxPolls THEN @ + 1 ELSE @]

\* the 5 s timer fires: the status poll is issued
VideoDelayElapses ==
  /\ \E i \in 1..Len(pendingMedia) :
       /\ pendingMedia[i].pc = "delay"
       /\ pendingMedia' = [pendingMedia EXCEPT ![i] = PollAfterDelay(pendingMedia[i])]
  /\ UNCHANGED <<uploadedFiles, additionalTask, useSearchGrounding, history,
                 currentContext, promptStyle, refinedPrompt, isLoading,
                 isRefining, error, loadingMedia, pendingAnalysis, pendingRefine,
                 nextId, mediaWrites, videoDone, selectTick, alertTick, repoVars, urlVars>>

(***************************************************************************)
(* CodeInput (multi-provider): the repository import.                      *)
(* A URL and a file path are sequences of tokens: separators ("/", ".")    *)
(* and scheme prefixes are tokens of their own.                            *)
(***************************************************************************)
MAX_FILE_SIZE_MB == 5

MAX_FILE_SIZE_BYTES == MAX_FILE_SIZE_MB * 1024 * 1024

BLOCKED_EXTENSIONS ==
  { "png", "jpg", "jpeg", "gif", "bmp", "svg", "webp", "ico", "tif", "tiff",
    "pdf", "doc", "docx", "xls", "xlsx", "ppt", "pptx", "odt", "ods", "odp",
    "zip", "rar", "7z", "tar", "gz", "bz2", "xz",
    "mp3", "wav", "ogg", "flac", "aac", "m4a",
    "mp4", "avi", "mov", "wmv", "mkv", "flv", "webm",
    "exe", "dll", "so", "dmg", "bin", "o", "a",
    "woff", "woff2", "ttf", "eot", "otf",
    "lock", "log", "DS_Store" }

\* String.prototype.split(sep): the pieces between the separator tokens
RECURSIVE Split(_, _)
Split(s, sep) ==
  IF s = <<>> THEN << <<>> >>
  ELSE LET rest == Split(Tail(s), sep)
       IN  IF Head(s) = sep THEN << <<>> >> \o rest
           ELSE << <<Head(s)>> \o Head(rest) >> \o Tail(rest)

Last(s) == s[Len(s)]

LowerAll(s) == [i \in 1..Len(s) |-> Lower(s[i])]

\* path.split('.').pop()?.toLowerCase(), looked up in the set; a piece of
\* several tokens holds a "/" and is no member of the set
isBlockedExtension(path) ==
  LET extension == LowerAll(Last(Split(path, ".")))
  IN  IF extension # <<>>
      THEN Len(extension) = 1 /\ extension[1] \in BLOCKED_EXTENSIONS
      ELSE FALSE

\* /(^|[\/\\])(package-lock\.json|yarn\.lock|pnpm-lock\.yaml)$/i
LockfileNames ==
  { <<"package-lock", ".", "json">>, <<"yarn", ".", "lock">>,
    <<"pnpm-lock", ".", "yaml">> }

isLockfile(path) == LowerAll(Last(Split(path, "/"))) \in LockfileNames

\* Array.prototype.slice(0, n)
Slice(s, n) == SubSeq(s, 1, IF Len(s) < n THEN Len(s) ELSE n)

TreeSliceLimit == 60

CrawlMaxDepth == 4

CrawlMaxFiles == 40

\* the content of a blob: its base64 form as the GitHub API returns it,
\* whether atob accepts that, and the text it encodes
Content(path, atobOk) ==
  [base64 |-> <<"base64 of">> \o path, atob |-> atobOk, utf8 |-> <<"text of">> \o path]

\* atob, bytes, TextDecoder.decode: defined where atob does not throw
base64ToUtf8(content) == content.utf8

\* the repositories the providers may serve: a tree node of GitHub / GitLab
Node(path, type, size) ==
  [path |-> path, type |-> type, size |-> size, content |-> Content(path, TRUE),
   values |-> <<>>]

GitTrees ==
  { << Node(<<"src", "/", "app", ".", "ts">>, "blob", 120),
       Node(<<"logo", ".", "PNG">>, "blob", 2048),
       Node(<<"data", ".", "txt">>, "blob", MAX_FILE_SIZE_BYTES + 1),
       Node(<<"src">>, "tree", 0) >>,
    << Node(<<".", "DS_Store">>, "blob", 6148),
       Node(<<"package-lock", ".", "json">>, "blob", 900),
       Node(<<"README", ".", "md">>, "blob", MAX_FILE_SIZE_BYTES) >>,
    << Node(<<"logo", ".", "png">>, "blob", 10) >>,
    << [Node(<<"raw", ".", "txt">>, "blob", 10) EXCEPT
          !.content = Content(<<"raw", ".", "txt">>, FALSE)] >> }

\* a directory listing of Bitbucket, directories carrying their own listing
BitbucketDir(path, values) == [Node(path, "commit_directory", 0) EXCEPT !.values = values]

BitbucketRoots ==
  { << Node(<<"main", ".", "py">>, "commit_file", 300),
       BitbucketDir(<<"assets">>,
         << Node(<<"assets", "/", "logo", ".", "png">>, "commit_file", 10),
            Node(<<"assets", "/", "dump", ".", "sql">>, "commit_file",
                 MAX_FILE_SIZE_BYTES + 1) >>) >>,
    << Node(<<"icon", ".", "ico">>, "commit_file", 10) >> }

\* observer: the files of a listing, directories expanded
RECURSIVE FilesOf(_)
FilesOf(values) ==
  IF values = <<>> THEN <<>>
  ELSE (IF Head(values).type = "commit_directory"
        THEN FilesOf(Head(values).values) ELSE <<Head(values)>>)
       \o FilesOf(Tail(values))

\* what the user may type into the repository field
RepoUrls ==
  { <<"https://", "github.com", "/", "user", "/", "repo">>,
    <<"GitHub.com", "/", "user", "/", "repo", ".git">>,
    <<"https://", "gitlab.com", "/", "user", "/", "repo">>,
    <<"gitlab.com", "/", "/", "group", "/", "repo", ".git", ".git", "/", "tree">>,
    <<"https://", "bitbucket.org", "/", "user", "/", "repo">>,
    <<"https://", "not", "github.com", "/", "user", "/", "repo">>,
    <<"https://", "example.org", "/", "user", "/", "repo">>,
    <<"https://", "github.com", "/", "user">>,
    <<"https://", " ", "/", "user", "/", "repo">> }

HttpStatuses == {200, 403, 404, 500}

\* "${response.status}" at the end of an error message
WithStatus(message, status) ==
  message \o (CASE status = 403 -> "403" [] status = 404 -> "404" [] OTHER -> "500")

\* repoUrl.startsWith('http')
StartsWithHttp(u) == u # <<>> /\ Head(u) \in {"http://", "https://"}

RECURSIVE TakeUntil(_, _)
TakeUntil(s, sep) ==
  IF s = <<>> \/ Head(s) = sep THEN <<>> ELSE <<Head(s)>> \o TakeUntil(Tail(s), sep)

\* new URL(...): the host is what stands between the scheme and the first
\* "/", lower-cased; the constructor throws on an empty host or a space
ParseUrl(u) ==
  LET rest == Tail(IF StartsWithHttp(u) THEN u ELSE <<"https://">> \o u)
      host == TakeUntil(rest, "/")
  IN  [ok |-> host # <<>> /\ ~Contains(host, " "),
       hostname |-> LowerAll(host),
       pathname |-> SubSeq(rest, Len(host) + 1, Len(rest))]

\* urlObj.pathname.split('/').filter(Boolean)
PathParts(pathname) == SelectSeq(Split(pathname, "/"), LAMBDA part : part # <<>>)

RepoPath_KeepGit(pathParts) == pathParts[1] \o <<"/">> \o pathParts[2]

\* (pathParts[0] + "/" + pathParts[1]).replace(/\.git$/, '')
RepoPath(pathParts) ==
  LET joined == pathParts[1] \o <<"/">> \o pathParts[2]
  IN  IF Last(joined) = ".git" THEN SubSeq(joined, 1, Len(joined) - 1) ELSE joined

\* the provider handleFetchFromRepo dispatches to
ProviderOf(hostname) ==
  IF Contains(hostname, "github.com") THEN "github"
  ELSE IF Contains(hostname, "gitlab.com") THEN "gitlab"
  ELSE IF Contains(hostname, "bitbucket.org") THEN "bitbucket"
  ELSE "none"

NoRepoFetchState == [loading |-> FALSE, error |-> "null", success |-> "null"]

NoEntry == Node(<<>>, "none", 0)

\* the import in flight: pc is the await it is suspended at
NoImport ==
  [pc |-> "idle", provider |-> "none", url |-> <<>>, hostname |-> <<>>,
   infoStatus |-> 0, outstanding |-> 0,
   repoPath |-> <<>>,
   entries |-> <<>>, filesToFetch |-> <<>>, i |-> 0, allFiles |-> <<>>,
   stack |-> <<>>, current |-> NoEntry, depth |-> 0, thrown |-> "null",
   log |-> <<>>, timer |-> FALSE]

AppUnchanged ==
  UNCHANGED <<additionalTask, useSearchGrounding, history, currentContext,
              promptStyle, refinedPrompt, isLoading, isRefining, error,
              loadingMedia, pendingAnalysis, pendingRefine, pendingMedia,
              nextId, mediaWrites, videoDone, selectTick, alertTick>>

\* onChange of the repository field
setRepoUrlOf(urls) ==
  /\ \E u \in urls \cup {<<>>} : u # repoUrl /\ repoUrl' = u
  /\ repoFetchState' =
       IF repoFetchState.error # "null" \/ repoFetchState.success = "true"
       THEN NoRepoFetchState ELSE repoFetchState
  /\ UNCHANGED <<uploadedFiles, repo>>
  /\ AppUnchanged
  /\ UNCHANGED urlVars

setRepoUrl == setRepoUrlOf(RepoUrls)

RepoError(message) == [loading |-> FALSE, error |-> message, success |-> "false"]

\* fetch(...) is called: the request is logged by its host
Request(r, pc, host) ==
  [r EXCEPT !.pc = pc, !.log = Append(@, host), !.outstanding = @ + 1]

\* the response to the first request of an import arrives: its status is
\* kept for the record
Answered(r, status) == [r EXCEPT !.infoStatus = status]

\* a throw inside a provider function: the promise handleFetchFromRepo awaits
\* is rejected
Throw(r, message) == [r EXCEPT !.pc = "settled", !.thrown = message]

\* the provider function returns allFiles
Return(r) == [r EXCEPT !.pc = "settled"]

\* handleFetchFromRepo up to the first await (the button is disabled while
\* loading)
handleFetchFromRepo ==
  /\ ~repoFetchState.loading
  /\ IF repoUrl = <<>>
     THEN /\ repoFetchState' = RepoError("Insira a URL do repositorio.")
          /\ repo' = repo
     ELSE LET urlObj == ParseUrl(repoUrl)
              pathParts == PathParts(urlObj.pathname)
              started == [NoImport EXCEPT !.timer = repo.timer, !.url = repoUrl,
                                          !.hostname = urlObj.hostname]
          IN  IF ~urlObj.ok
              THEN /\ repoFetchState' = RepoError("URL invalida.")
                   /\ repo' = repo
              ELSE IF Len(pathParts) < 2
              THEN /\ repoFetchState' = RepoError("URL deve conter usuario/repositorio.")
                   /\ repo' = repo
              ELSE IF ProviderOf(urlObj.hostname) = "none"
              THEN /\ repoFetchState' =
                        RepoError("Provedor nao suportado. Use GitHub, GitLab ou Bitbucket.")
                   /\ repo' = repo
              ELSE /\ repoFetchState' = [loading |-> TRUE, error |-> "null", success |-> "null"]
                   /\ repo' =
                        LET r == [started EXCEPT !.provider = ProviderOf(urlObj.hostname),
                                                 !.repoPath = RepoPath(pathParts)]
                        IN  CASE r.provider = "github" -> Request(r, "github:info", "api.github.com")
                              [] r.provider = "gitlab" -> Request(r, "gitlab:info", "gitlab.com")
                              [] r.provider = "bitbucket" ->
                                   Request(r, "bitbucket:list", "api.bitbucket.org")
  /\ UNCHANGED <<uploadedFiles, repoUrl>>
  /\ AppUnchanged
  /\ UNCHANGED urlVars

\* an import step that touches nothing but the import itself
ImportStep(r) ==
  /\ repo' = r
  /\ UNCHANGED <<uploadedFiles, repoUrl, repoFetchState>>
  /\ AppUnchanged
  /\ UNCHANGED urlVars

\* an import step in which the awaited fetch settles: that request is no
\* longer outstanding
ResponseStep(r) == ImportStep([r EXCEPT !.outstanding = @ - 1])

\* the mutant of FilesToFetch: the candidates are not cut down
FilesToFetch_Unsliced(tree) ==
  SelectSeq(SelectSeq(tree, LAMBDA node : node.type = "blob" /\ ~isBlockedExtension(node.path)),
            LAMBDA node : ~isLockfile(node.path))

\* the filter chain of fetchGitHub and fetchGitLab
FilesToFetch(tree) ==
  Slice(SelectSeq(SelectSeq(tree, LAMBDA node : node.type = "blob" /\ ~isBlockedExtension(node.path)),
                  LAMBDA node : ~isLockfile(node.path)),
        TreeSliceLimit)

\* the mutant of NextFile: the next two requests are issued at once
NextFile_Unawaited(r, pc, host) ==
  IF r.i + 1 > Len(r.filesToFetch) THEN Return([r EXCEPT !.i = @ + 1])
  ELSE Request(Request([r EXCEPT !.i = @ + 1], pc, host), pc, host)

\* the head of the for loop: the next file is requested or the loop is over
NextFile(r, pc, host) ==
  IF r.i + 1 > Len(r.filesToFetch) THEN Return([r EXCEPT !.i = @ + 1])
  ELSE Request([r EXCEPT !.i = @ + 1], pc, host)

\* fetchGitHub: the repository information arrives
fetchGitHubInfo ==
  /\ repo.pc = "github:info"
  /\ \E status \in HttpStatuses :
       LET r == Answered(repo, status)
       IN  ResponseStep(
             IF status = 200 THEN Request(r, "github:tree", "api.github.com")
             ELSE IF status = 403
             THEN Throw(r, "Limite de requisicoes da API do GitHub atingido. Aguarde ou tente mais tarde.")
             ELSE IF status = 404
             THEN Throw(r, "Repositorio nao encontrado. Verifique se e publico.")
             ELSE Throw(r, WithStatus("Erro GitHub API: ", status)))

\* fetchGitHub: the tree arrives, the candidates are filtered and the loop starts
fetchGitHubTreeOf(trees) ==
  /\ repo.pc = "github:tree"
  /\ \E status \in HttpStatuses :
       IF status # 200
       THEN ResponseStep(Throw(repo, "Falha ao buscar arvore de arquivos."))
       ELSE \E tree \in trees :
              ResponseStep(NextFile([repo EXCEPT !.entries = tree,
                                               !.filesToFetch = FilesToFetch(tree)],
                                  "github:file", "api.github.com"))

fetchGitHubTree == fetchGitHubTreeOf(GitTrees)

\* !(blob.size > MAX_FILE_SIZE_BYTES)
WithinSizeLimit(size) == ~(size > MAX_FILE_SIZE_BYTES)

\* fetchGitHub: a blob arrives; it is skipped, or pushed and the throttle
\* delay starts
fetchGitHubFileOf(statuses) ==
  /\ repo.pc = "github:file"
  /\ \E status \in statuses :
       LET file == repo.filesToFetch[repo.i]
       IN  ResponseStep(
             IF status # 200 \/ ~WithinSizeLimit(file.size)
             THEN NextFile(repo, "github:file", "api.github.com")
             ELSE IF ~file.content.atob
             THEN Throw(repo, "InvalidCharacterError")
             ELSE [repo EXCEPT
                     !.allFiles = Append(@, [path |-> file.path,
                                             content |-> base64ToUtf8(file.content)]),
                     !.pc = "github:delay", !.log = Append(@, "delay")])

fetchGitHubFile == fetchGitHubFileOf(HttpStatuses)

\* fetchGitHub: the 50 ms are over
fetchGitHubDelay ==
  /\ repo.pc = "github:delay"
  /\ ImportStep(NextFile(repo, "github:file", "api.github.com"))

\* fetchGitLab: the project information arrives
fetchGitLabInfo ==
  /\ repo.pc = "gitlab:info"
  /\ \E status \in HttpStatuses :
       LET r == Answered(repo, status)
       IN  ResponseStep(
             IF status = 200 THEN Request(r, "gitlab:tree", "gitlab.com")
             ELSE IF status = 404 THEN Throw(r, "Projeto GitLab nao encontrado ou privado.")
             ELSE Throw(r, WithStatus("Erro GitLab API (Info): ", status)))

\* fetchGitLab: the tree arrives
fetchGitLabTreeOf(trees) ==
  /\ repo.pc = "gitlab:tree"
  /\ \E status \in HttpStatuses :
       IF status # 200
       THEN ResponseStep(Throw(repo, WithStatus("Erro GitLab API (Tree): ", status)))
       ELSE \E tree \in trees :
              ResponseStep(NextFile([repo EXCEPT !.entries = tree,
                                               !.filesToFetch = FilesToFetch(tree)],
                                  "gitlab:file", "gitlab.com"))

fetchGitLabTree == fetchGitLabTreeOf(GitTrees)

\* fetchGitLab: a raw file arrives; it is skipped, or pushed as it is and
\* the throttle delay starts
fetchGitLabFileOf(statuses) ==
  /\ repo.pc = "gitlab:file"
  /\ \E status \in statuses :
       LET file == repo.filesToFetch[repo.i]
       IN  ResponseStep(
             IF status # 200
             THEN NextFile(repo, "gitlab:file", "gitlab.com")
             ELSE [repo EXCEPT
                     !.allFiles = Append(@, [path |-> file.path,
                                             content |-> file.content.utf8]),
                     !.pc = "gitlab:delay", !.log = Append(@, "delay")])

fetchGitLabFile == fetchGitLabFileOf(HttpStatuses)

\* fetchGitLab: the 50 ms are over
fetchGitLabDelay ==
  /\ repo.pc = "gitlab:delay"
  /\ ImportStep(NextFile(repo, "gitlab:file", "gitlab.com"))

\* fetchBitbucket: crawl runs on from where it is, through the for loops of
\* the listings on its stack, up to its next fetch or to the end of the
\* outermost call, after which fetchBitbucket throws on an empty result
RECURSIVE crawl(_)
crawl(r) ==
  IF r.stack = <<>>
  THEN IF r.allFiles = <<>>
       THEN Throw(r, "Nenhum arquivo acessivel encontrado ou erro de CORS no Bitbucket.")
       ELSE Return(r)
  ELSE LET top == Last(r.stack)
           below == SubSeq(r.stack, 1, Len(r.stack) - 1)
       IN  IF top.values = <<>> \/ Len(r.allFiles) >= CrawlMaxFiles
           THEN crawl([r EXCEPT !.stack = below])
           ELSE LET entry == Head(top.values)
                    rest == [r EXCEPT !.stack = Append(below, [top EXCEPT !.values = Tail(@)])]
                IN  IF entry.type = "commit_file" /\ ~isBlockedExtension(entry.path)
                    THEN Request([rest EXCEPT !.current = entry],
                                 "bitbucket:file", "api.allorigins.win")
                    ELSE IF entry.type = "commit_directory"
                    THEN IF top.depth + 1 > CrawlMaxDepth \/ Len(r.allFiles) >= CrawlMaxFiles
                         THEN crawl(rest)
                         ELSE Request([rest EXCEPT !.current = entry, !.depth = top.depth + 1],
                                      "bitbucket:list", "api.bitbucket.org")
                    ELSE crawl(rest)

\* crawl: a directory listing arrives
crawlListingOf(roots) ==
  /\ repo.pc = "bitbucket:list"
  /\ \E status \in HttpStatuses :
       IF status # 200
       THEN ResponseStep(crawl(IF repo.depth = 0 THEN Answered(repo, status) ELSE repo))
       ELSE \E values \in (IF repo.depth = 0 THEN roots
                           ELSE {repo.current.values}) :
              ResponseStep(crawl([repo EXCEPT
                !.infoStatus = IF repo.depth = 0 THEN status ELSE @,
                !.entries = IF repo.depth = 0 THEN FilesOf(values) ELSE @,
                !.stack = Append(@, [values |-> values, depth |-> repo.depth])]))

crawlListing == crawlListingOf(BitbucketRoots)

\* crawl: a file arrives through the proxy
crawlFileOf(statuses) ==
  /\ repo.pc = "bitbucket:file"
  /\ \E status \in statuses :
       ResponseStep(crawl(
         IF status = 200
         THEN [repo EXCEPT !.allFiles = Append(@, [path |-> repo.current.path,
                                                   content |-> repo.current.content.utf8])]
         ELSE repo))

crawlFile == crawlFileOf(HttpStatuses)

\* a fetch rejects (no network, CORS): caught around the Bitbucket file
\* fetch, an exception of the import everywhere else
FetchRejects ==
  /\ repo.pc \in {"github:info", "github:tree", "github:file", "gitlab:info",
                  "gitlab:tree", "gitlab:file", "bitbucket:list", "bitbucket:file"}
  /\ ResponseStep(IF repo.pc = "bitbucket:file" THEN crawl(repo)
                ELSE Throw(repo, "Failed to fetch"))

\* the mutant of ImportedFiles: the fetched files are added to the held ones
ImportedFiles_Merged(held, fetchedFiles) == held \o fetchedFiles

\* setUploadedFiles(fetchedFiles)
ImportedFiles(held, fetchedFiles) == fetchedFiles

\* handleFetchFromRepo resumes after the provider function has settled
FetchReturns ==
  /\ repo.pc = "settled"
  /\ IF repo.thrown # "null" \/ repo.allFiles = <<>>
     THEN /\ repoFetchState' =
               RepoError(IF repo.thrown # "null" THEN repo.thrown
                         ELSE "Nenhum arquivo de codigo valido encontrado.")
          /\ repo' = [NoImport EXCEPT !.timer = repo.timer]
          /\ UNCHANGED <<uploadedFiles, repoUrl>>
     ELSE /\ uploadedFiles' = ImportedFiles(uploadedFiles, repo.allFiles)
          /\ repoUrl' = <<>>
          /\ repoFetchState' = [loading |-> FALSE, error |-> "null", success |-> "true"]
          /\ repo' = [NoImport EXCEPT !.timer = TRUE]
  /\ AppUnchanged
  /\ UNCHANGED urlVars

\* setTimeout(..., 4000) after a success: the success mark is taken down
SuccessTimeout ==
  /\ repo.timer
  /\ repo' = [repo EXCEPT !.timer = FALSE]
  /\ repoFetchState' = [repoFetchState EXCEPT !.success = "null"]
  /\ UNCHANGED <<uploadedFiles, repoUrl>>
  /\ AppUnchanged
  /\ UNCHANGED urlVars

(***************************************************************************)
(* CodeInput: import of raw files by URL (handleFetchFromUrl).  A URL is a *)
(* sequence of tokens, cut where the code looks at it: "github.com" and    *)
(* "/blob/" are tokens of their own.                                       *)
(***************************************************************************)
GithubBlobUrl == <<"https://", "github.com", "/user/repo", "/blob/", "main/a.ts">>
PlainUrl == <<"https://", "example.org", "/b.js">>

\* what the user may have typed into the textarea
UrlTexts ==
  { GithubBlobUrl \o <<"\n">> \o PlainUrl,
    <<" ">> \o PlainUrl \o <<" ", "\n", " ", "\n">> \o GithubBlobUrl,
    PlainUrl,
    <<" ", "\n">> }

NoUrlFetchState == [loading |-> FALSE, error |-> <<>>]
NoUrlFetch == [urls |-> <<>>, fetches |-> <<>>, requested |-> <<>>]

\* url.split('\n').map(u => u.trim()).filter(Boolean)
UrlsToFetch(text) ==
  SelectSeq([i \in 1..Len(Split(text, "\n")) |-> Trim(Split(text, "\n")[i])],
            LAMBDA u : u # <<>>)

\* String.prototype.replace with a string pattern: the first occurrence
RECURSIVE ReplaceFirst(_, _, _)
ReplaceFirst(u, tok, with) ==
  IF u = <<>> THEN <<>>
  ELSE IF Head(u) = tok THEN <<with>> \o Tail(u)
  ELSE <<Head(u)>> \o ReplaceFirst(Tail(u), tok, with)

transformGithubUrl(originalUrl) ==
  IF Contains(originalUrl, "github.com") /\ Contains(originalUrl, "/blob/")
  THEN ReplaceFirst(ReplaceFirst(originalUrl, "github.com", "raw.githubusercontent.com"),
                    "/blob/", "/")
  ELSE originalUrl

\* the address the fetch goes to
ProxyUrl(finalUrl) == <<"https://api.allorigins.win/raw?url=">> \o finalUrl

\* individualUrl.substring(0, 50); every token is at least one character
Substring50(u) == SubSeq(u, 1, IF Len(u) < 50 THEN Len(u) ELSE 50)

\* the message of the Error thrown from the catch of one fetch
FetchFailure(individualUrl, message) ==
  <<"Falha ao buscar ">> \o Substring50(individualUrl) \o <<"...: ", message>>

\* onChange of the textarea
setUrlOf(texts) ==
  /\ \E text \in texts \cup {<<>>} : text # url /\ url' = text
  /\ UNCHANGED <<uploadedFiles, urlFetchState, urlFetch>>
  /\ AppUnchanged
  /\ UNCHANGED repoVars

setUrl == setUrlOf(UrlTexts)

\* handleFetchFromUrl up to its await: every promise of fetchPromises has
\* run to its own await fetch(proxyUrl), so every request is issued
handleFetchFromUrl ==
  /\ ~urlFetchState.loading
  /\ LET urlsToFetch == UrlsToFetch(url)
     IN  IF Len(urlsToFetch) = 0
         THEN /\ urlFetchState' =
                   [loading |-> FALSE, error |-> <<"Por favor, insira uma ou mais URLs.">>]
              /\ urlFetch' = urlFetch
         ELSE /\ urlFetchState' = [loading |-> TRUE, error |-> <<>>]
              /\ urlFetch' =
                   [urls |-> urlsToFetch,
                    fetches |-> [i \in 1..Len(urlsToFetch) |->
                                   [pc |-> "fetch", value |-> <<>>]],
                    requested |-> [i \in 1..Len(urlsToFetch) |->
                                     ProxyUrl(transformGithubUrl(urlsToFetch[i]))]]
  /\ UNCHANGED <<uploadedFiles, url>>
  /\ AppUnchanged
  /\ UNCHANGED repoVars

\* a step of one of the promises: nothing but that promise changes
PromiseStep(i, pc, value) ==
  /\ urlFetch' = [urlFetch EXCEPT !.fetches[i] = [pc |-> pc, value |-> value]]
  /\ UNCHANGED <<uploadedFiles, url, urlFetchState>>
  /\ AppUnchanged
  /\ UNCHANGED repoVars

\* the proxy answers one of the requests
UrlFetchResponds ==
  \E i \in 1..Len(urlFetch.fetches) :
    /\ urlFetch.fetches[i].pc = "fetch"
    /\ \E status \in HttpStatuses :
         IF status = 200 THEN PromiseStep(i, "text", <<>>)
         ELSE PromiseStep(i, "rejected",
                          FetchFailure(urlFetch.urls[i], WithStatus("Status ", status)))

\* response.text() resolves: the promise is fulfilled with the file
UrlTextArrives ==
  \E i \in 1..Len(urlFetch.fetches) :
    /\ urlFetch.fetches[i].pc = "text"
    /\ PromiseStep(i, "fulfilled",
                   <<[path |-> urlFetch.urls[i],
                      content |-> <<"text of">> \o transformGithubUrl(urlFetch.urls[i])]>>)

\* fetch or response.text() rejects
UrlFetchRejects ==
  \E i \in 1..Len(urlFetch.fetches) :
    /\ urlFetch.fetches[i].pc \in {"fetch", "text"}
    /\ PromiseStep(i, "rejected", FetchFailure(urlFetch.urls[i], "Failed to fetch"))

\* the mutant of successfulFiles: one rejection discards every result
successfulFiles_All(results) ==
  IF \E i \in 1..Len(results) : results[i].pc = "rejected" THEN <<>>
  ELSE [i \in 1..Len(results) |-> results[i].value[1]]

\* results.forEach: the values of the fulfilled promises, in input order
successfulFiles(results) ==
  LET fulfilled == SelectSeq(results, LAMBDA result : result.pc = "fulfilled")
  IN  [i \in 1..Len(fulfilled) |-> fulfilled[i].value[1]]

\* results.forEach: the messages of the rejected promises, in input order
errorMessages(results) ==
  LET rejected == SelectSeq(results, LAMBDA result : result.pc = "rejected")
  IN  [i \in 1..Len(rejected) |-> rejected[i].value]

\* Promise.allSettled has resolved: handleFetchFromUrl runs to its end
UrlFetchReturns ==
  /\ urlFetchState.loading
  /\ \A i \in 1..Len(urlFetch.fetches) : urlFetch.fetches[i].pc \in {"fulfilled", "rejected"}
  /\ IF Len(successfulFiles(urlFetch.fetches)) > 0
     THEN /\ uploadedFiles' = successfulFiles(urlFetch.fetches)
          /\ url' = <<>>
     ELSE UNCHANGED <<uploadedFiles, url>>
  /\ urlFetchState' =
       [loading |-> FALSE,
        error |-> IF Len(errorMessages(urlFetch.fetches)) > 0
                  THEN <<"Ocorreram erros: ">> \o Join(errorMessages(urlFetch.fetches), <<". ">>)
                  ELSE <<>>]
  /\ urlFetch' = NoUrlFetch
  /\ AppUnchanged
  /\ UNCHANGED repoVars

(***************************************************************************)
(* The application specification.                                          *)
(***************************************************************************)
AppInit ==
  /\ uploadedFiles = <<>>
  /\ additionalTask = ""
  /\ useSearchGrounding = FALSE
  /\ history = <<>>
  /\ currentContext = NoContext
  /\ promptStyle = "technical"
  /\ refinedPrompt = NullPrompt
  /\ isLoading = FALSE
  /\ isRefining = FALSE
  /\ error = "null"
  /\ loadingMedia = NoLoadingMedia
  /\ pendingAnalysis = NoAnalysisRequest
  /\ pendingRefine = NoRefineRequest
  /\ pendingMedia = <<>>
  /\ nextId = 1
  /\ mediaWrites = [p \in (1..MaxContexts) \X MediaKinds |-> 0]
  /\ videoDone = {}
  /\ selectTick = FALSE
  /\ alertTick = FALSE

Init ==
  /\ AppInit
  /\ repoUrl = <<>>
  /\ repoFetchState = NoRepoFetchState
  /\ repo = NoImport
  /\ url = <<>>
  /\ urlFetchState = NoUrlFetchState
  /\ urlFetch = NoUrlFetch

(* Spec: the input panel, analysis, refinement, the eight styles and the   *)
(* history menu, with the creative tools left untouched.                   *)
Next ==
  \/ handleTextChange
  \/ handleClearFiles
  \/ setAdditionalTask
  \/ handleGeneratePrompt
  \/ AnalyzeCodeReturns
  \/ AnalyzeCodeThrows
  \/ handleRefinePrompt
  \/ RefinePromptReturns
  \/ RefinePromptThrows
  \/ handleRevertRefinement
  \/ setPromptStyle
  \/ handleSelectHistory

Spec == Init /\ [][Next]_vars

(* MediaSpec: every operation that touches the contexts, with the logo and *)
(* the audio tool, over one analysis answer, no task and two style buttons.*)
AnalyzeCodeReturnsCounter ==
  AnalyzeCodeResolves({r \in AnalysisResults : r.mainObjective = "counter"})

setPromptStyleEither == SelectStyle({"technical", "concise"})

MediaNext ==
  \/ handleTextChange
  \/ handleGeneratePrompt
  \/ AnalyzeCodeReturnsCounter
  \/ AnalyzeCodeThrows
  \/ handleRefinePrompt
  \/ RefinePromptReturns
  \/ RefinePromptThrows
  \/ handleRevertRefinement
  \/ setPromptStyleEither
  \/ handleSelectHistory
  \/ handleGenerateLogo
  \/ handleGenerateAudio
  \/ GenerateProjectLogoReturns
  \/ GenerateAudioSummaryReturns
  \/ GeneratorThrows

MediaSpec == Init /\ [][MediaNext]_vars

(* VideoSpec: the video tool with its polling loop next to the logo tool,  *)
(* with analysis and the history menu and without refinement.              *)
VideoNext ==
  \/ handleTextChange
  \/ handleGeneratePrompt
  \/ AnalyzeCodeReturnsCounter
  \/ AnalyzeCodeThrows
  \/ handleSelectHistory
  \/ handleGenerateLogo
  \/ handleGenerateVideo
  \/ GenerateProjectLogoReturns
  \/ GeneratorThrows
  \/ VideoOperationReturns
  \/ VideoDelayElapses

VideoSpec == Init /\ [][VideoNext]_vars

(* RepoSpec: the repository import next to the other ways of loading code. *)
RepoNext ==
  \/ handleTextChange
  \/ handleFileChange
  \/ handleClearFiles
  \/ setRepoUrl
  \/ handleFetchFromRepo
  \/ fetchGitHubInfo
  \/ fetchGitHubTree
  \/ fetchGitHubFile
  \/ fetchGitHubDelay
  \/ fetchGitLabInfo
  \/ fetchGitLabTree
  \/ fetchGitLabFile
  \/ fetchGitLabDelay
  \/ crawlListing
  \/ crawlFile
  \/ FetchRejects
  \/ FetchReturns
  \/ SuccessTimeout

RepoSpec == Init /\ [][RepoNext]_vars

(* BoundsSpec: imports of repositories larger than the importers take: a   *)
(* tree of LargeTreeSize blobs, and a Bitbucket root whose first entry is  *)
(* a chain of ChainDepth nested directories, one file in each, followed by *)
(* LargeListingSize files; every file request is answered with 200.        *)
LargeTreeSize == 62
LargeListingSize == 42
ChainDepth == 6

LargeTree ==
  [i \in 1..LargeTreeSize |-> Node(<<"src", "/", ToString(i), ".", "ts">>, "blob", 100)]

\* the path of the directory n levels below the root, as tokens
RECURSIVE ChainPath(_)
ChainPath(n) == IF n = 1 THEN <<"d1">> ELSE ChainPath(n - 1) \o <<"/", "d" \o ToString(n)>>

\* the listing of the directory n levels below the root
RECURSIVE ChainListing(_)
ChainListing(n) ==
  <<Node(ChainPath(n) \o <<"/", "mod", ".", "py">>, "commit_file", 100)>>
  \o (IF n < ChainDepth
      THEN <<BitbucketDir(ChainPath(n + 1), ChainListing(n + 1))>> ELSE <<>>)

LargeRoot ==
  <<BitbucketDir(ChainPath(1), ChainListing(1))>>
  \o [i \in 1..LargeListingSize |->
        Node(<<"f" \o ToString(i), ".", "py">>, "commit_file", 100)]

fetchGitHubTreeLarge == fetchGitHubTreeOf({LargeTree})
fetchGitLabTreeLarge == fetchGitLabTreeOf({LargeTree})
fetchGitHubFileOk == fetchGitHubFileOf({200})
fetchGitLabFileOk == fetchGitLabFileOf({200})
crawlListingLarge == crawlListingOf({LargeRoot})
crawlFileOk == crawlFileOf({200})

BoundsNext ==
  \/ setRepoUrl
  \/ handleFetchFromRepo
  \/ fetchGitHubInfo
  \/ fetchGitHubTreeLarge
  \/ fetchGitHubFileOk
  \/ fetchGitHubDelay
  \/ fetchGitLabInfo
  \/ fetchGitLabTreeLarge
  \/ fetchGitLabFileOk
  \/ fetchGitLabDelay
  \/ crawlListingLarge
  \/ crawlFileOk
  \/ FetchReturns
  \/ SuccessTimeout

BoundsSpec == Init /\ [][BoundsNext]_vars

(* LockSpec: imports of a repository with lockfiles at the root and in     *)
(* subdirectories, in lower and upper case.                                *)
LockTree ==
  << Node(<<"src", "/", "app", ".", "ts">>, "blob", 120),
     Node(<<"package-lock", ".", "json">>, "blob", 900),
     Node(<<"web", "/", "Yarn", ".", "lock">>, "blob", 900),
     Node(<<"web", "/", "ui", "/", "PNPM-LOCK", ".", "yaml">>, "blob", 900) >>

LockRoot ==
  << Node(<<"package-lock", ".", "json">>, "commit_file", 900),
     BitbucketDir(<<"web">>,
       << Node(<<"web", "/", "yarn", ".", "lock">>, "commit_file", 900),
          Node(<<"web", "/", "PNPM-LOCK", ".", "yaml">>, "commit_file", 900),
          Node(<<"web", "/", "app", ".", "js">>, "commit_file", 120) >>) >>

fetchGitHubTreeLocks == fetchGitHubTreeOf({LockTree})
fetchGitLabTreeLocks == fetchGitLabTreeOf({LockTree})
crawlListingLocks == crawlListingOf({LockRoot})

LockNext ==
  \/ setRepoUrl
  \/ handleFetchFromRepo
  \/ fetchGitHubInfo
  \/ fetchGitHubTreeLocks
  \/ fetchGitHubFile
  \/ fetchGitHubDelay
  \/ fetchGitLabInfo
  \/ fetchGitLabTreeLocks
  \/ fetchGitLabFile
  \/ fetchGitLabDelay
  \/ crawlListingLocks
  \/ crawlFile
  \/ FetchRejects
  \/ FetchReturns
  \/ SuccessTimeout

LockSpec == Init /\ [][LockNext]_vars

(* UrlSpec: the raw-URL import, with pasting, upload and clearing going on *)
(* beside it.                                                              *)
UrlNext ==
  \/ handleTextChange
  \/ handleFileChange
  \/ handleClearFiles
  \/ setUrl
  \/ handleFetchFromUrl
  \/ UrlFetchResponds
  \/ UrlTextArrives
  \/ UrlFetchRejects
  \/ UrlFetchReturns

UrlSpec == Init /\ [][UrlNext]_vars

(* BlobSpec: folders of two files, some of whose contents hold the text of *)
(* the separator or of a path marker, are uploaded and sent for analysis.   *)
BlobFiles ==
  { [path |-> path, content |-> content] :
      path \in { <<"a", ".", "py">>, <<"notes", ".", "md">> },
      content \in { <<"x=1">>, <<>>,
                    <<"intro", "\n\n---\n\n", "outro">>,
                    <<"x=1", "\n\n---\n\n", "// FILE: ", "c", ".", "py", "\n\n", "y=2">> } }

BlobFileLists == { <<f, g>> : f \in BlobFiles, g \in BlobFiles }

handleFileChangeBlob == handleFileChangeOf(BlobFileLists)

BlobNext ==
  \/ handleFileChangeBlob
  \/ handleClearFiles
  \/ handleGeneratePrompt
  \/ AnalyzeCodeThrows

BlobSpec == Init /\ [][BlobNext]_vars

(* GroundingSpec: analyses with and without search grounding, of code with *)
(* one dependency and of code with more dependencies than the query takes. *)
LibraryAnalysis ==
  [role |-> "Dev", languageFramework |-> <<"TypeScript">>,
   mainObjective |-> "store", technicalPurpose |-> "state",
   keyFeatures |-> <<"sync">>, structureClasses |-> <<>>,
   structureFunctions |-> <<"load">>,
   dependencies |-> <<"react", "redux", "axios", "lodash", "zod", "vite">>,
   groundingLinks |-> NoLinks]

AnalyzeCodeReturnsLibraries ==
  AnalyzeCodeResolves({r \in AnalysisResults : r.mainObjective = "counter"}
                        \cup {LibraryAnalysis})

GroundingNext ==
  \/ handleTextChange
  \/ setUseSearchGrounding
  \/ handleGeneratePrompt
  \/ AnalyzeCodeReturnsLibraries
  \/ AnalyzeCodeThrows
  \/ researchContextResolves
  \/ researchContextFails
  \/ ResearchContextReturns
  \/ setPromptStyleEither
  \/ handleSelectHistory

GroundingSpec == Init /\ [][GroundingNext]_vars

(* AnalysisSpec: analyses whose model call ends in each of the ways of     *)
(* ApiResponses, refinement, two style buttons and the history menu.       *)
AnalysisNext ==
  \/ handleTextChange
  \/ setAdditionalTask
  \/ handleGeneratePrompt
  \/ generateContentSettles
  \/ analyzeCodeSettles
  \/ handleRefinePrompt
  \/ RefinePromptReturns
  \/ RefinePromptThrows
  \/ setPromptStyleEither
  \/ handleSelectHistory

AnalysisSpec == Init /\ [][AnalysisNext]_vars

(* LiveSpec: every kind of request the application issues, over small      *)
(* inputs, with the scheduling the runtime and the environment provide:    *)
(* every outstanding request is answered or fails, every timer fires, a    *)
(* settled promise resumes its handler, and a video job that is polled     *)
(* again and again reports done at some poll.  The video job may report    *)
(* "not done" any number of times.  The user works with one way of input   *)
(* at a time: a repository import, a raw-URL import or an analysis is      *)
(* started only while the other two are untouched, an analysis on pasted   *)
(* text; the audio tool is not                                             *)
(* started while the logo or the video tool is running, nor the other way  *)
(* round, and no tool is started while a refinement is running, nor the    *)
(* other way round.  A logo and a video request, and two requests of one   *)
(* kind (one of them of an unmounted PromptOutput), do run side by side.   *)
RepoUntouched == repoUrl = <<>> /\ repo = NoImport /\ repoFetchState = NoRepoFetchState

UrlUntouched == url = <<>> /\ urlFetch = NoUrlFetch /\ urlFetchState = NoUrlFetchState

AnalysisUntouched == ~pendingAnalysis.active /\ history = <<>> /\ error = "null"

LiveRepoUrls ==
  { <<"https://", "github.com", "/", "user", "/", "repo">>,
    <<"https://", "gitlab.com", "/", "user", "/", "repo">>,
    <<"https://", "bitbucket.org", "/", "user", "/", "repo">> }

LiveTree == << Node(<<"src", "/", "app", ".", "ts">>, "blob", 120) >>

LiveRoot ==
  << BitbucketDir(<<"lib">>,
       << Node(<<"lib", "/", "a", ".", "py">>, "commit_file", 120) >>) >>

setRepoUrlLive == UrlUntouched /\ AnalysisUntouched /\ setRepoUrlOf(LiveRepoUrls)
handleFetchFromRepoLive == UrlUntouched /\ AnalysisUntouched /\ handleFetchFromRepo
handleFetchFromUrlLive == RepoUntouched /\ AnalysisUntouched /\ handleFetchFromUrl
handleGeneratePromptLive ==
  RepoUntouched /\ UrlUntouched /\ uploadedFiles = <<PastedFile>> /\ handleGeneratePrompt

NoneOutstanding(kinds) ==
  \A i \in 1..Len(pendingMedia) : pendingMedia[i].kind \notin kinds

handleGenerateLogoLive ==
  ~pendingRefine.active /\ NoneOutstanding({"audio"}) /\ handleGenerateLogo
handleGenerateVideoLive ==
  ~pendingRefine.active /\ NoneOutstanding({"audio"}) /\ handleGenerateVideo
handleGenerateAudioLive ==
  ~pendingRefine.active /\ NoneOutstanding({"logo", "video"}) /\ handleGenerateAudio
handleRefinePromptLive == pendingMedia = <<>> /\ handleRefinePrompt
fetchGitHubTreeLive == fetchGitHubTreeOf({LiveTree})
fetchGitLabTreeLive == fetchGitLabTreeOf({LiveTree})
crawlListingLive == crawlListingOf({LiveRoot})
setUrlLive == RepoUntouched /\ AnalysisUntouched /\ setUrlOf({PlainUrl})

VideoJobReportsDone ==
  VideoOperationResolves({operation \in Operations : operation.done}, FALSE)

VideoJobReportsRunning ==
  VideoOperationResolves({operation \in Operations : ~operation.done}, FALSE)

AnalysisSettles == AnalyzeCodeReturnsCounter \/ AnalyzeCodeThrows

RefinementSettles == RefinePromptReturns \/ RefinePromptThrows

LogoSettles == GenerateProjectLogoReturns \/ GeneratorThrowsFor("logo")

AudioSettles == GenerateAudioSummaryReturns \/ GeneratorThrowsFor("audio")

RepoImportProceeds ==
  \/ fetchGitHubInfo
  \/ fetchGitHubTreeLive
  \/ fetchGitHubFile
  \/ fetchGitHubDelay
  \/ fetchGitLabInfo
  \/ fetchGitLabTreeLive
  \/ fetchGitLabFile
  \/ fetchGitLabDelay
  \/ crawlListingLive
  \/ crawlFile
  \/ FetchRejects
  \/ FetchReturns

UrlImportProceeds ==
  \/ UrlFetchResponds
  \/ UrlTextArrives
  \/ UrlFetchRejects
  \/ UrlFetchReturns

LiveNext ==
  \/ handleTextChange
  \/ handleGeneratePromptLive
  \/ AnalysisSettles
  \/ handleRefinePromptLive
  \/ RefinementSettles
  \/ handleGenerateLogoLive
  \/ handleGenerateAudioLive
  \/ handleGenerateVideoLive
  \/ LogoSettles
  \/ AudioSettles
  \/ GeneratorThrowsFor("video")
  \/ VideoJobReportsDone
  \/ VideoJobReportsRunning
  \/ VideoDelayElapses
  \/ setRepoUrlLive
  \/ handleFetchFromRepoLive
  \/ RepoImportProceeds
  \/ SuccessTimeout
  \/ setUrlLive
  \/ handleFetchFromUrlLive
  \/ UrlImportProceeds

RequestsSettle ==
  /\ WF_vars(AnalysisSettles)
  /\ WF_vars(RefinementSettles)
  /\ WF_vars(LogoSettles)
  /\ WF_vars(AudioSettles)
  /\ WF_vars(RepoImportProceeds)
  /\ WF_vars(UrlImportProceeds)
  /\ WF_vars(VideoJobReportsDone \/ VideoJobReportsRunning)
  /\ WF_vars(VideoDelayElapses)

VideoJobsFinish == SF_vars(VideoJobReportsDone)

LiveSpec == Init /\ [][LiveNext]_vars /\ RequestsSettle /\ VideoJobsFinish

\* the same without the assumption on the video job
LiveSpecAnyVideoJob == Init /\ [][LiveNext]_vars /\ RequestsSettle

(***************************************************************************)
(* Properties of the history list and of the refinement override.          *)
(***************************************************************************)
Ids(h) == [i \in 1..Len(h) |-> h[i].id]

\* the step in which handleGeneratePrompt ends without an error
AnalysisSucceeds == isLoading /\ ~isLoading' /\ error' = "null"

FormatterOutput(ctx, style) == formatters(style, ctx.analysis, ctx.code, ctx.task)

\* C1: the sequence of context ids in history changes only in the step in
\* which an analysis succeeds, and that step puts exactly one context with
\* an id not yet in the list in front of the unchanged old sequence; every
\* other step (history selection, style change, refinement, revert, media
\* completion, failed analysis) leaves the sequence of ids as it is.
C1_HistoryAppendOnly ==
  [][IF AnalysisSucceeds
     THEN /\ Len(history') = Len(history) + 1
          /\ Tail(Ids(history')) = Ids(history)
          /\ \A i \in 1..Len(history) : history[i].id # history'[1].id
     ELSE Ids(history') = Ids(history)]_vars

\* two analyses succeeded, the older context got its logo before or after
\* the second one, and a refinement is on display
C1_Witness ==
  /\ Ids(history) = <<2, 1>>
  /\ history[2].generatedLogoUrl # NoUrl
  /\ isRefined
  /\ promptStyle = "concise"

\* C2: a handleSelectHistory call, whichever entry it is given, ends with
\* the refinement override absent and the displayed prompt equal to the
\* formatter of the selected style applied to the entry, which is current.
C2_SelectRestores ==
  [][selectTick' # selectTick
       => /\ ~isRefined'
          /\ displayedPrompt' = FormatterOutput(currentContext', promptStyle')]_vars

\* C3 as stated: once a refinement is on display, a step that changes only
\* the style leaves the refined text on display.
C3_RefinedWhateverStyle ==
  [][isRefined /\ promptStyle' # promptStyle /\ currentContext' = currentContext
       => displayedPrompt' = refinedPrompt.text]_vars

\* C3 amended: the displayed prompt is the refined text in every state in
\* which an override is present; pressing the button of the style already
\* selected keeps the override, and a step that changes the style removes
\* it and shows the formatter output of the new style.
C3_RefinedWhilePresent ==
  /\ [](isRefined => displayedPrompt = refinedPrompt.text)
  /\ [][isRefined /\ promptStyle' # promptStyle
          => /\ refinedPrompt' = NullPrompt
             /\ displayedPrompt' = FormatterOutput(currentContext, promptStyle')]_vars

\* a refinement is on display under a style other than the initial one
C3_Witness ==
  /\ isRefined
  /\ promptStyle = "base44"
  /\ displayedPrompt = <<"refined prompt">>

\* C4: a refinement request that saw the current context change while it
\* was in flight never puts its text on display.
C4_NoRefinementAcrossSwitch ==
  [][pendingRefine.active /\ pendingRefine.switched /\ ~pendingRefine'.active
       => ~isRefined']_vars

(***************************************************************************)
(* Properties of the creative tools.                                       *)
(***************************************************************************)
\* C5: over any sequence of user actions, each media field of each context
\* is written at most once.
C5_WrittenAtMostOnce == \A p \in DOMAIN mediaWrites : mediaWrites[p] <= 1

\* the step in which the media request at position i ends with an alert
MediaFailureOf(i) ==
  /\ alertTick' # alertTick
  /\ pendingMedia' = RemoveAt(pendingMedia, i)

\* C6: the step in which a logo, audio or video request fails leaves the
\* current context, every history entry, the refinement override, the
\* in-flight flags of the other kinds and every other outstanding request
\* as they were; the flag of its own kind is the only thing it may clear.
C6_FailureAffectsNothingElse ==
  [][\A i \in 1..Len(pendingMedia) :
       MediaFailureOf(i)
         => /\ currentContext' = currentContext
            /\ history' = history
            /\ refinedPrompt' = refinedPrompt
            /\ \A k \in MediaKinds \ {pendingMedia[i].kind} :
                 loadingMedia'[k] = loadingMedia[k]
            /\ ~loadingMedia'[pendingMedia[i].kind] \/ loadingMedia' = loadingMedia
            /\ mediaWrites' = mediaWrites]_vars

\* a media request has failed while a refinement is on display and another
\* request is outstanding with its flag raised
C6_Witness ==
  /\ alertTick
  /\ isRefined
  /\ Len(pendingMedia) = 1
  /\ loadingMedia[pendingMedia[1].kind]
  /\ \E k \in MediaKinds : MediaUrl(currentContext, k) # NoUrl

\* every context object the program holds
HeldContexts ==
  {currentContext} \cup {history[i] : i \in 1..Len(history)}
    \cup {pendingMedia[i].ctx : i \in 1..Len(pendingMedia)}

\* C7: a context carries a video URL only if a video job started for it was
\* seen done, the URL is a URI the job returned followed by the key
\* parameter, and a video request has issued exactly as many status polls
\* as it has waited delays.
C7_VideoUrlOnlyWhenDone ==
  /\ \A ctx \in HeldContexts :
       ctx.generatedVideoUrl # NoUrl
         => /\ ctx.id \in videoDone
            /\ ctx.generatedVideoUrl \in {uri \o "&key=" \o "API_KEY" : uri \in VideoUris}
  /\ \A i \in 1..Len(pendingMedia) :
       /\ pendingMedia[i].polls = pendingMedia[i].delays
       /\ pendingMedia[i].pc = "getVideosOperation" => pendingMedia[i].polls > 0

\* one context got its video URL and the video job of another one is being
\* polled after a delay
C7_Witness ==
  /\ \E i \in 1..Len(history) : history[i].generatedVideoUrl # NoUrl
  /\ \E i \in 1..Len(pendingMedia) :
       /\ pendingMedia[i].pc = "getVideosOperation"
       /\ pendingMedia[i].polls = 1
       /\ pendingMedia[i].ctx.generatedVideoUrl = NoUrl

(***************************************************************************)
(* Properties of the repository import.                                    *)
(***************************************************************************)
Paths(files) == [i \in 1..Len(files) |-> files[i].path]

RECURSIVE IsSubsequence(_, _)
IsSubsequence(s, t) ==
  IF s = <<>> THEN TRUE
  ELSE IF t = <<>> THEN FALSE
  ELSE IF Head(s) = Head(t) THEN IsSubsequence(Tail(s), Tail(t))
  ELSE IsSubsequence(s, Tail(t))

\* the step in which handleFetchFromRepo ends after its provider function
ImportEnds == repo.pc = "settled" /\ repo'.pc = "idle"

\* C8: a step of the repository import changes the file list only when the
\* import ends with the success mark, and then the new list is exactly the
\* non-empty list of files this import fetched, in the order of the
\* repository listing, whatever was held before; an import that ends
\* otherwise (thrown error, no file retrieved) and every failure before the
\* first request (empty, invalid or unsupported URL) leave the list as it was.
C8_ImportAllOrNothing ==
  /\ [](IsSubsequence(Paths(repo.allFiles), Paths(repo.entries)))
  /\ [][(repo' # repo \/ repoFetchState' # repoFetchState)
          => IF ImportEnds /\ repoFetchState'.success = "true"
             THEN /\ repo.thrown = "null"
                  /\ repo.allFiles # <<>>
                  /\ uploadedFiles' = repo.allFiles
             ELSE /\ uploadedFiles' = uploadedFiles
                  /\ ImportEnds => repoFetchState'.error # "null"]_vars

\* an import has just succeeded with two files of the first repository
C8_Witness ==
  /\ repoFetchState.success = "true"
  /\ repo.timer
  /\ Paths(uploadedFiles) = << <<"src", "/", "app", ".", "ts">>, <<"data", ".", "txt">> >>

\* the extension of the path, as written or lower-cased, is in the list
ListedExtension(path) ==
  LET pieces == Split(path, ".")
  IN  /\ Len(pieces) > 1
      /\ Len(Last(pieces)) = 1
      /\ \/ Last(pieces)[1] \in BLOCKED_EXTENSIONS
         \/ Lower(Last(pieces)[1]) \in BLOCKED_EXTENSIONS

\* C9: whatever the provider, no file collected by an import has an
\* extension listed in BLOCKED_EXTENSIONS and none belongs to a repository
\* entry larger than 5 MiB.
C9_BlockedOrOversizedExcluded ==
  \A i \in 1..Len(repo.allFiles) :
    /\ ~ListedExtension(repo.allFiles[i].path)
    /\ \A j \in 1..Len(repo.entries) :
         repo.entries[j].path = repo.allFiles[i].path
           => repo.entries[j].size <= 5 * 1024 * 1024

SupportedHostnames == { <<"github.com">>, <<"gitlab.com">>, <<"bitbucket.org">> }

\* a click on the import button that changes what the field shows
ImportClicked ==
  /\ ~repoFetchState.loading
  /\ repoUrl # <<>>
  /\ repoUrl' = repoUrl
  /\ repo'.timer = repo.timer
  /\ repoFetchState' # repoFetchState

\* C10: an import is in flight only for the hostnames github.com, gitlab.com
\* and bitbucket.org, and a click with a well-formed URL of any other
\* hostname ends at once with the unsupported-provider error and without a
\* request.
C10_ProviderByHostname ==
  /\ [](repo.pc # "idle" => repo.hostname \in SupportedHostnames)
  /\ [][LET urlObj == ParseUrl(repoUrl)
        IN  /\ ImportClicked
            /\ urlObj.ok
            /\ Len(PathParts(urlObj.pathname)) >= 2
            /\ urlObj.hostname \notin SupportedHostnames
            => /\ repoFetchState'.error =
                    "Provedor nao suportado. Use GitHub, GitLab ou Bitbucket."
               /\ repo' = repo]_vars

\* the segments of a typed URL: what stands between the "/" tokens after
\* the scheme and the host, empty ones left out
RECURSIVE Segments(_)
Segments(tokens) ==
  IF tokens = <<>> THEN <<>>
  ELSE IF Head(tokens) = "/" THEN Segments(Tail(tokens))
  ELSE LET segment == TakeUntil(tokens, "/")
       IN  <<segment>> \o Segments(SubSeq(tokens, Len(segment) + 1, Len(tokens)))

SegmentsOfUrl(u) ==
  LET rest == IF StartsWithHttp(u) THEN Tail(u) ELSE u
  IN  IF rest = <<>> THEN <<>> ELSE Tail(Segments(rest))

Unparseable(u) ==
  LET rest == IF StartsWithHttp(u) THEN Tail(u) ELSE u
  IN  rest = <<>> \/ Head(rest) \in {"/", " "}

InvalidUrlErrors ==
  { "Insira a URL do repositorio.", "URL invalida.",
    "URL deve conter usuario/repositorio." }

\* C11: a click with an input that is no URL or has fewer than two non-empty
\* path segments ends at once with one of the invalid-URL messages and
\* without a request; an import in flight works on the first two segments
\* of the URL it was started with, joined by "/", less one trailing ".git".
C11_UrlValidation ==
  /\ [](repo.pc # "idle"
          => LET segments == SegmentsOfUrl(repo.url)
                 joined == segments[1] \o <<"/">> \o segments[2]
             IN  /\ Len(segments) >= 2
                 /\ repo.repoPath =
                      IF joined[Len(joined)] = ".git"
                      THEN SubSeq(joined, 1, Len(joined) - 1) ELSE joined)
  /\ [][/\ ~repoFetchState.loading
        /\ repoUrl' = repoUrl
        /\ repo'.timer = repo.timer
        /\ repoFetchState' # repoFetchState
        /\ Unparseable(repoUrl) \/ Len(SegmentsOfUrl(repoUrl)) < 2
        => /\ repoFetchState'.error \in InvalidUrlErrors
           /\ ~repoFetchState'.loading
           /\ repo' = repo]_vars

\* an import is in flight for a URL typed without scheme, with empty and
\* surplus segments and a doubled ".git"
C11_Witness ==
  /\ repo.pc = "gitlab:tree"
  /\ repo.url = <<"gitlab.com", "/", "/", "group", "/", "repo", ".git", ".git", "/", "tree">>
  /\ repo.repoPath = <<"group", "/", "repo", ".git">>

NotFoundErrors ==
  { "Repositorio nao encontrado. Verifique se e publico.",
    "Projeto GitLab nao encontrado ou privado." }

RateLimitedErrors ==
  { "Limite de requisicoes da API do GitHub atingido. Aguarde ou tente mais tarde." }

\* C12: for every provider, an import whose first request (repository
\* information, or the root listing of Bitbucket) was answered with 404 has
\* failed with a not-found error, one answered with 403 with a rate-limit
\* error, and no other failure shows either of the two.
C12_NotFoundAndRateLimited ==
  repo.pc = "settled" =>
    /\ repo.infoStatus = 404 <=> repo.thrown \in NotFoundErrors
    /\ repo.infoStatus = 403 <=> repo.thrown \in RateLimitedErrors

FilePcs == {"github:file", "gitlab:file", "bitbucket:file"}

IsPrefix(s, t) == Len(s) <= Len(t) /\ SubSeq(t, 1, Len(s)) = s

\* C13: whatever happens to an outstanding file request (a non-OK status, a
\* rejected fetch, a body that cannot be decoded), the import does not fail
\* because of it: the files collected so far are kept and either the loop
\* goes on or the provider function ends without that exception (only an
\* import that collected nothing at all may end with the empty-import
\* error).
C13_FileFailureSwallowed ==
  [][repo.pc \in FilePcs
       => /\ IsPrefix(repo.allFiles, repo'.allFiles)
          /\ repo'.thrown \in
               {"null", "Nenhum arquivo acessivel encontrado ou erro de CORS no Bitbucket."}]_vars

\* C14: an import has at most one request outstanding, exactly one while
\* it waits for a file, a listing or the repository information and none
\* during the throttle delay; a request is issued only in a step that leaves
\* it the only one outstanding, and the candidates are requested one by one
\* in their order.
C14_FetchesSequential ==
  /\ [](/\ repo.outstanding <= 1
        /\ repo.pc \in {"idle", "settled", "github:delay", "gitlab:delay"}
             <=> repo.outstanding = 0)
  /\ [][/\ Len(repo'.log) > Len(repo.log) /\ Last(repo'.log) # "delay"
             => repo'.outstanding = 1
        /\ repo'.i # repo.i => repo'.i \in {0, repo.i + 1}]_vars

\* the second candidate of a GitHub import is awaited, the first one kept
C14_Witness ==
  /\ repo.pc = "github:file"
  /\ repo.i = 2
  /\ repo.outstanding = 1
  /\ Len(repo.allFiles) = 1

\* C15: the step in which a file request of an import settles issues no
\* further request, whether the file was kept, skipped for its size or
\* failed: the import ends there or enters the delay, and the next request
\* is what follows the delay.
C15_DelayBetweenFileFetches ==
  [][repo.pc \in FilePcs /\ repo' # repo
       => /\ repo'.outstanding = 0
          /\ repo'.pc \in {"settled", "github:delay", "gitlab:delay"}]_vars

\* the files of the fulfilled promises among the first n, by input position
RECURSIVE FulfilledUpTo(_)
FulfilledUpTo(n) ==
  IF n = 0 THEN <<>>
  ELSE FulfilledUpTo(n - 1) \o
         (IF urlFetch.fetches[n].pc = "fulfilled" THEN urlFetch.fetches[n].value ELSE <<>>)

RejectedPromises == {i \in 1..Len(urlFetch.fetches) : urlFetch.fetches[i].pc = "rejected"}

Occurrences(seq, tok) == Cardinality({i \in 1..Len(seq) : seq[i] = tok})

\* C16: the click issues the request of every URL before anything is
\* awaited; nothing is written before all promises have settled; the step
\* that ends the import replaces the file list by the files of the
\* fulfilled promises in the order of their URLs if there is one, leaves it
\* alone if there is none, and shows an error holding one message for each
\* rejected promise (none if nothing was rejected).
C16_AllSettled ==
  /\ [](urlFetchState.loading
          => /\ Len(urlFetch.urls) > 0
             /\ urlFetch.requested =
                  [i \in 1..Len(urlFetch.urls) |->
                     ProxyUrl(transformGithubUrl(urlFetch.urls[i]))]
             /\ Len(urlFetch.fetches) = Len(urlFetch.urls))
  /\ [][/\ ~urlFetchState.loading /\ urlFetchState'.loading
             => \A i \in 1..Len(urlFetch'.fetches) : urlFetch'.fetches[i].pc = "fetch"
        /\ urlFetchState.loading /\ urlFetchState'.loading /\ urlFetch' # urlFetch
             => UNCHANGED <<uploadedFiles, url, urlFetchState>>
        /\ urlFetchState.loading /\ ~urlFetchState'.loading
             => LET files == FulfilledUpTo(Len(urlFetch.fetches))
                IN  /\ \A i \in 1..Len(urlFetch.fetches) :
                         urlFetch.fetches[i].pc \in {"fulfilled", "rejected"}
                    /\ uploadedFiles' = IF files # <<>> THEN files ELSE uploadedFiles
                    /\ \A k \in 1..Len(files) :
                         \E i \in 1..Len(urlFetch.urls) : files[k].path = urlFetch.urls[i]
                    /\ Occurrences(urlFetchState'.error, "Falha ao buscar ")
                         = Cardinality(RejectedPromises)
                    /\ urlFetchState'.error = <<>> <=> RejectedPromises = {}]_vars

\* an import of two URLs has ended with the GitHub one rejected: the file of
\* the other one alone is loaded and the error is shown
C16_Witness ==
  /\ ~urlFetchState.loading
  /\ Occurrences(urlFetchState.error, "Falha ao buscar ") = 1
  /\ Len(uploadedFiles) = 1
  /\ uploadedFiles[1].path = PlainUrl
  /\ Contains(urlFetchState.error, "github.com")

\* the reading of a blob the round trip asks for: the blob is cut at the
\* separators, and each piece is a path marker, the path up to the blank
\* line, and the content after it
ParseBlob(blob) ==
  IF blob = <<>> THEN <<>>
  ELSE LET pieces == Split(blob, "\n\n---\n\n")
       IN  [i \in 1..Len(pieces) |->
              LET piece == pieces[i]
                  marked == piece # <<>> /\ Head(piece) = "// FILE: "
                  body == IF marked THEN Tail(piece) ELSE piece
                  path == TakeUntil(body, "\n\n")
              IN  [path |-> IF marked THEN path ELSE <<"?">>,
                   content |-> SubSeq(body, Len(path) + 2, Len(body))]]

\* C17: the blob sent for analysis holds one path marker and one separator
\* less than that per uploaded file, and reading it back by separator and
\* marker gives the uploaded files, paths and contents, in their order.
C17_BlobRoundTrip ==
  [][~pendingAnalysis.active /\ pendingAnalysis'.active
       => LET blob == pendingAnalysis'.code
          IN  /\ Occurrences(blob, "// FILE: ") = Len(uploadedFiles)
              /\ Occurrences(blob, "\n\n---\n\n") = Len(uploadedFiles) - 1
              /\ ParseBlob(blob) = uploadedFiles]_vars

\* C18: without a refinement override the displayed prompt is the output
\* of the selected style's formatter for the current context, whatever was
\* selected before, so the same context and style always show the same
\* text; a style switch or a history selection leaves every entry of the
\* history as it is, and the current context is the one it was or an entry
\* of the history, analysis included.
C18_StyleSelectionPure ==
  /\ [](currentContext # NoContext /\ ~isRefined
          => displayedPrompt = FormatterOutput(currentContext, promptStyle))
  /\ [][promptStyle' # promptStyle \/ selectTick' # selectTick
          => /\ history' = history
             /\ \/ currentContext' = currentContext
                \/ \E i \in 1..Len(history) : currentContext' = history[i]
             /\ promptStyle' # promptStyle => currentContext' = currentContext]_vars

\* the older of two contexts has been selected again and is shown in a
\* style other than the initial one
C18_Witness ==
  /\ Len(history) = 2
  /\ currentContext = history[2]
  /\ promptStyle = "lovable"
  /\ ~isRefined
  /\ displayedPrompt = formatLovablePrompt(history[2].analysis, history[2].code, history[2].task)
  /\ displayedPrompt # formatTechnicalPrompt(history[2].analysis, history[2].code, history[2].task)

\* the line that opens the task section of each template
TaskHeading(style) ==
  CASE style = "technical"   -> "**Tarefa Solicitada:**"
    [] style = "compact"     -> "**Tarefa:**"
    [] style = "concise"     -> "**Tarefa:** "
    [] style = "popular"     -> "Agora, com base no que voce entendeu, me ajude com isso:"
    [] style = "friendly"    -> "**Poderia me ajudar com isso?**"
    [] style = "descriptive" -> "**Gostaria de ajuda com:**"
    [] style = "lovable"     -> "**Sua Missao Criativa:**"
    [] style = "base44"      -> "@@YOUR_MISSION:"

C20_GroundingBestEffort ==
  /\ [](pendingAnalysis.phase \in {"researchContext", "grounded"}
          => LET dependencies == pendingAnalysis.result.dependencies
                 named == {dependencies[i] : i \in 1..Len(dependencies)}
                            \cap {pendingAnalysis.query[i] : i \in 1..Len(pendingAnalysis.query)}
             IN  /\ Cardinality(named) <= 5
                 /\ named = {dependencies[i] : i \in 1..Len(dependencies) \cap 1..5}
                 /\ pendingAnalysis.failed => pendingAnalysis.links = <<>>)
  /\ [][pendingAnalysis.phase = "grounded" /\ pendingAnalysis.failed
          /\ pendingAnalysis' # pendingAnalysis
          => /\ ~pendingAnalysis'.active
             /\ ~isLoading' /\ error' = "null"
             /\ history' = <<currentContext'>> \o history
             /\ currentContext' =
                  [id |-> nextId,
                   analysis |-> [pendingAnalysis.result EXCEPT
                                   !.groundingLinks = [defined |-> TRUE, links |-> <<>>]],
                   code |-> pendingAnalysis.code, task |-> pendingAnalysis.task,
                   timestamp |-> nextId, generatedLogoUrl |-> NoUrl,
                   generatedAudioUrl |-> NoUrl, generatedVideoUrl |-> NoUrl]]_vars

\* the grounding of an analysis with six dependencies has failed, after a
\* query for five of them
C20_Witness ==
  /\ pendingAnalysis.phase = "grounded"
  /\ pendingAnalysis.failed
  /\ Len(pendingAnalysis.result.dependencies) = 6
  /\ ~Contains(pendingAnalysis.query, "vite")
  /\ Contains(pendingAnalysis.query, "zod")

\* the kind of failure a response of the model call is
FailureKind(response) ==
  IF response.rejected
  THEN IF response.message = "API key not valid. Please pass a valid API key."
       THEN "authentication" ELSE "provider"
  ELSE IF Trim(response.text) = <<>> THEN "empty response"
  ELSE IF ~JsonParse(Trim(response.text)).ok THEN "invalid model output"
  ELSE "none"

\* the message handleGeneratePrompt would show for a response
MessageFor(response) == analyzeCode(response).message

\* C21: the message analyzeCode fails with tells the four kinds of failure
\* apart: whenever an analysis has failed, no response of another kind
\* would have led to the same message; and the step that resumes
\* handleGeneratePrompt shows that message.
C21_FailuresClassified ==
  /\ [](pendingAnalysis.phase = "analyzed"
          /\ FailureKind(pendingAnalysis.response) # "none"
          => \A other \in ApiResponses :
               FailureKind(other) # FailureKind(pendingAnalysis.response)
                 => MessageFor(other) # MessageFor(pendingAnalysis.response))
  /\ [][pendingAnalysis.phase = "analyzed" /\ ~pendingAnalysis'.active
          /\ FailureKind(pendingAnalysis.response) # "none"
          => error' = MessageFor(pendingAnalysis.response)]_vars

\* the step in which handleGeneratePrompt resumes after a failed analyzeCode
AnalysisFails ==
  /\ pendingAnalysis.phase = "analyzed"
  /\ ~analyzeCode(pendingAnalysis.response).ok
  /\ pendingAnalysis' # pendingAnalysis

\* the step in which handleRefinePrompt resumes after a failed refinePrompt
RefinementFails == pendingRefine.active /\ alertTick' # alertTick

\* C22: the step that ends a failed analysis shows a message, ends the
\* request without issuing another one and creates no context; the step
\* that ends a failed refinement shows an alert, ends the request and sets
\* no override; these steps and the clicks that started the two actions
\* leave the history and the current context as they are.
C22_FailureAbortsOnlyItsAction ==
  [][/\ AnalysisFails
          => /\ error' # "null" /\ ~isLoading'
             /\ ~pendingAnalysis'.active
             /\ nextId' = nextId
             /\ UNCHANGED <<history, currentContext>>
     /\ RefinementFails
          => /\ ~isRefining' /\ ~pendingRefine'.active
             /\ UNCHANGED <<refinedPrompt, history, currentContext, error>>
     /\ ~pendingAnalysis.active /\ pendingAnalysis'.active
          => UNCHANGED <<history, currentContext>>
     /\ ~pendingRefine.active /\ pendingRefine'.active
          => UNCHANGED <<refinedPrompt, history, currentContext>>]_vars

\* a second analysis has failed: the message is shown, and the context of
\* the first one is still the current one and the only entry of the history
C22_Witness ==
  /\ error = "Falha na analise do codigo: xhr error"
  /\ ~isLoading /\ ~pendingAnalysis.active
  /\ Len(history) = 1
  /\ currentContext = history[1]
  /\ nextId = 2

OutstandingMedia(kind) == {i \in 1..Len(pendingMedia) : pendingMedia[i].kind = kind}

\* C23: in every state there is at most one request outstanding for each of
\* logo, audio and video, an analysis is outstanding only while isLoading
\* and a refinement only while isRefining (the flags that disable their
\* buttons), a repository import and a raw-URL import only while their
\* loading flags are set, and an import has at most one request of its own
\* outstanding.
C23_OneInFlightPerControl ==
  /\ \A kind \in MediaKinds : Cardinality(OutstandingMedia(kind)) <= 1
  /\ pendingAnalysis.active <=> isLoading
  /\ pendingRefine.active <=> isRefining
  /\ repo.pc \notin {"idle"} <=> repoFetchState.loading
  /\ urlFetch # NoUrlFetch <=> urlFetchState.loading

\* C24: an import of GitHub or GitLab has at most 60 candidates and issues
\* no file request beyond the 60th (with the requests for the repository
\* information and the tree, at most 62 requests in all); a Bitbucket import
\* never holds more than 40 files and never requests the listing of a
\* directory more than 4 levels below the root.
C24_ImportSizeBounds ==
  /\ repo.provider \in {"github", "gitlab"}
       => /\ Len(repo.filesToFetch) <= 60
          /\ repo.pc \in {"github:file", "gitlab:file"} => repo.i <= 60
          /\ Len(repo.allFiles) <= 60
          /\ Cardinality({k \in 1..Len(repo.log) : repo.log[k] # "delay"}) <= 62
  /\ repo.provider = "bitbucket"
       => /\ Len(repo.allFiles) <= 40
          /\ repo.pc = "bitbucket:list" => repo.depth <= 4
          /\ \A k \in 1..Len(repo.stack) : repo.stack[k].depth <= 4

\* a GitHub import of a tree of more than 60 blobs has ended with 60 files
C24_Witness ==
  /\ repo.provider = "github"
  /\ repo.pc = "settled"
  /\ Len(SelectSeq(repo.entries, LAMBDA node : node.type = "blob")) > 60
  /\ Len(repo.allFiles) = 60

\* the final component of a path, in lower case
FinalComponent(path) == LowerAll(Last(Split(path, "/")))

CommonLockfiles ==
  { <<"package-lock", ".", "json">>, <<"yarn", ".", "lock">>,
    <<"pnpm-lock", ".", "yaml">> }

\* C25: for every provider, no file collected by a repository import, and no
\* file it puts into the file list, has a path whose final component is
\* package-lock.json, yarn.lock or pnpm-lock.yaml in any letter case.
C25_NoLockfileImported ==
  /\ \A k \in 1..Len(repo.allFiles) :
       FinalComponent(repo.allFiles[k].path) \notin CommonLockfiles
  /\ \A k \in 1..Len(uploadedFiles) :
       FinalComponent(uploadedFiles[k].path) \notin CommonLockfiles

\* C26: no media result is lost: a URL that the history entry of a context
\* carries is carried unchanged by the entry of that context after every
\* step, whichever media completion runs later (so two operations started
\* together for one context leave both their URLs on it).
C26_MediaUrlNeverLost ==
  [][\A j \in 1..Len(history) : \A kind \in MediaKinds :
       MediaUrl(history[j], kind) # NoUrl
         => \E k \in 1..Len(history') :
              /\ history'[k].id = history[j].id
              /\ MediaUrl(history'[k], kind) = MediaUrl(history[j], kind)]_vars

\* C27: a media completion does not change which context is current: when
\* the operation was triggered for another context than the current one,
\* the step that completes it leaves currentContext as it is.
C27_CompletionKeepsCurrent ==
  [][\A i \in 1..Len(pendingMedia) :
       /\ pendingMedia[i].ctx.id # currentContext.id
       /\ pendingMedia' = RemoveAt(pendingMedia, i)
       => currentContext' = currentContext]_vars

\* C28: a context is a snapshot of the trigger: the click on Generate sends
\* the blob of the file list and the task field of that moment; the context
\* created when the analysis ends stores exactly the blob and the task that
\* were sent; and a step that changes the file list or the task field, with
\* an analysis in flight or not, changes no context and not the prompt on
\* display.
C28_ContextIsSnapshot ==
  /\ [][~pendingAnalysis.active /\ pendingAnalysis'.active
          => /\ pendingAnalysis'.code = combinedCodeOf(uploadedFiles)
             /\ pendingAnalysis'.task = additionalTask]_vars
  /\ [][nextId' # nextId
          => /\ currentContext'.code = pendingAnalysis.code
             /\ currentContext'.task = pendingAnalysis.task
             /\ history' = <<currentContext'>> \o history]_vars
  /\ [][uploadedFiles' # uploadedFiles \/ additionalTask' # additionalTask
          => /\ history' = history
             /\ currentContext' = currentContext
             /\ displayedPrompt' = displayedPrompt]_vars

\* a context is held whose code and task both differ from the inputs of now
C28_Witness ==
  /\ currentContext # NoContext
  /\ ~isLoading
  /\ currentContext.code # combinedCodeOf(uploadedFiles)
  /\ currentContext.task # additionalTask

\* C29: while a context is current, history holds exactly one entry with
\* its id and that entry equals it in every field (analysis, code, task,
\* timestamp and the three media URLs); the ids of history are pairwise
\* distinct.
C29_CurrentIsInHistory ==
  /\ currentContext # NoContext
       => /\ Cardinality({j \in 1..Len(history) : history[j].id = currentContext.id}) = 1
          /\ \A j \in 1..Len(history) :
               history[j].id = currentContext.id
                 => /\ history[j].analysis = currentContext.analysis
                    /\ history[j].code = currentContext.code
                    /\ history[j].task = currentContext.task
                    /\ history[j].timestamp = currentContext.timestamp
                    /\ \A kind \in MediaKinds :
                         MediaUrl(history[j], kind) = MediaUrl(currentContext, kind)
  /\ \A j, k \in 1..Len(history) : history[j].id = history[k].id => j = k

\* an older entry of a longer history is current and carries a media URL
C29_Witness ==
  /\ Len(history) > 1
  /\ currentContext # NoContext
  /\ currentContext.id # history[1].id
  /\ \E kind \in MediaKinds : MediaUrl(currentContext, kind) # NoUrl

\* C30: every in-flight flag is eventually cleared: when every request
\* returns or fails and every video job that is polled reports done at some
\* poll, each of isLoading, isRefining, the three loadingMedia flags,
\* repoFetchState.loading and urlFetchState.loading that is set is reset
\* later on, whether the request succeeded or failed.
C30_FlagsEventuallyCleared ==
  /\ isLoading ~> ~isLoading
  /\ isRefining ~> ~isRefining
  /\ \A kind \in MediaKinds : loadingMedia[kind] ~> ~loadingMedia[kind]
  /\ repoFetchState.loading ~> ~repoFetchState.loading
  /\ urlFetchState.loading ~> ~urlFetchState.loading

\* a video request has succeeded and its flag is reset while the flag of a
\* logo request of the same PromptOutput is still set
C30_Witness ==
  /\ currentContext.generatedVideoUrl # NoUrl
  /\ ~loadingMedia["video"]
  /\ loadingMedia["logo"]

\* without the assumption on the video job: a video flag that is set is
\* reset later on
C30_VideoFlagCleared == loadingMedia["video"] ~> ~loadingMedia["video"]

====
